---- MODULE Spec2Model ----
(***************************************************************************)
(* GoKV: a single-file B+ tree key-value store.                            *)
(*                                                                         *)
(* Pages are modelled byte for byte (a page is a function from byte        *)
(* offsets 0..PageSize-1 to bytes), with the slotted node layout, the      *)
(* pager, the meta page and the transactions of the Go sources.  The page  *)
(* is scaled down from 4096 bytes so that nodes fill up and split after a  *)
(* handful of entries; every layout rule is the code's.                    *)
(***************************************************************************)
EXTENDS Integers, Sequences, FiniteSets, TLC

\* ------------------------------------------------------------- bounds
\* Scaled page size (the pager sets 4096): 50 bytes hold the header and
\* three entries with their slots, for leaves (1-byte key, ValLen-byte
\* value) and branches (1-byte key, 8-byte child id) alike.
PageSize == 50
\* Keys are the one-byte strings <<1>> .. <<MaxKey>>.
MaxKey == 5
\* Length of the values written by Put.
ValLen == 8
\* Depth budget of a root-to-leaf descent (a lookup on a damaged file).
MaxDepth == 4
\* Put is not called once the pager has handed out more than MaxPages pages.
MaxPages == 6
\* Goroutines calling Update and View.
NumProcs == 2
\* Number of keys put by the Updates that run concurrently.
MaxConcKey == 2
\* The number of operations applied to a Node taken alone.
MaxOps == 5

\* ---------------------------------------------------- program constants
NodeLeaf == 1
NodeBranch == 2
NodeHeaderSize == 3
OffsetSize == 2
KeyLenSize == 2
ValLenSize == 2
KVHeaderSize == KeyLenSize + ValLenSize
MetaPageID == 0
\* DBMagic = 0xDEADBEEF as its high and low 16-bit halves (TLC's integers are 32-bit).
DBMagicHi == 57005
DBMagicLo == 48879
DBMagic == <<DBMagicHi, DBMagicLo>>

Nil == <<>>
Pages == 0..(PageSize - 1)
ZeroPage == [i \in Pages |-> 0]

\* ------------------------------------------------ little-endian helpers
U16(d, pos) == d[pos] + 256 * d[pos + 1]

PutU16(d, pos, v) ==
    [d EXCEPT ![pos] = v % 256, ![pos + 1] = (v \div 256) % 256]

\* copy(d[pos:], b[i..]) for a b that fits in the page
RECURSIVE WriteFrom(_, _, _, _)
WriteFrom(d, pos, b, i) ==
    IF i > Len(b) THEN d
    ELSE WriteFrom([d EXCEPT ![pos + i - 1] = b[i]], pos, b, i + 1)

WriteBytes(d, pos, b) == WriteFrom(d, pos, b, 1)

\* copy(d[to:], src[from:end]) of Go, which moves overlapping bytes as memmove does
RECURSIVE MoveFrom(_, _, _, _, _)
MoveFrom(d, src, to, from, end) ==
    IF from >= end THEN d
    ELSE MoveFrom([d EXCEPT ![to] = src[from]], src, to + 1, from + 1, end)

\* binary.LittleEndian.PutUint64 of a child page id
PutUint64(v) == [j \in 1..8 |-> IF j <= 4 THEN (v \div (256 ^ (j - 1))) % 256 ELSE 0]

\* binary.LittleEndian.Uint64, for 8 bytes that hold a value below 2^24;
\* any larger value reads as TooBig, a page id beyond every file.
TooBig == 16777216

Uint64(b) ==
    IF \E j \in 4..8 : b[j] # 0 THEN TooBig
    ELSE b[1] + 256 * b[2] + 65536 * b[3]

\* bytes.Compare: lexicographic order on byte strings
RECURSIVE Compare(_, _)
Compare(a, b) ==
    IF Len(a) = 0 /\ Len(b) = 0 THEN 0
    ELSE IF Len(a) = 0 THEN -1
    ELSE IF Len(b) = 0 THEN 1
    ELSE IF Head(a) < Head(b) THEN -1
    ELSE IF Head(a) > Head(b) THEN 1
    ELSE Compare(Tail(a), Tail(b))

\* F(v), with v evaluated once: how a Go local variable holds a result.
With(v, F(_)) == CHOOSE y \in {F(r) : r \in {v}} : TRUE

SetMin(S) == CHOOSE x \in S : \A y \in S : x <= y
SetMax(S) == CHOOSE x \in S : \A y \in S : x >= y

\* ----------------------------------------------------------------- Node
getType(n) == n[0]

getKeyCount(n) == U16(n, 1)

getOffset(n, index) == U16(n, NodeHeaderSize + OffsetSize * index)

\* The panic of a slice expression or of the CORRUPTION checks.
Panic == [ok |-> FALSE, key |-> <<>>, val |-> <<>>]

getLeafKeyValue(n, index) ==
    IF NodeHeaderSize + OffsetSize * index + OffsetSize > PageSize THEN Panic
    ELSE With(getOffset(n, index), LAMBDA offset :
      IF offset + KVHeaderSize > PageSize THEN Panic
      ELSE With(U16(n, offset), LAMBDA keyLen :
           With(U16(n, offset + KeyLenSize), LAMBDA valLen :
             IF offset + KVHeaderSize + keyLen + valLen > PageSize THEN Panic
             ELSE [ok  |-> TRUE,
                   key |-> [j \in 1..keyLen |-> n[offset + KVHeaderSize + j - 1]],
                   val |-> [j \in 1..valLen |->
                               n[offset + KVHeaderSize + keyLen + j - 1]]])))

\* Writes the slot of `index` and the record at `offset`.  Its callers
\* establish offset + record size <= PageSize before the call.
writeLeafKeyValue(n, index, offset, key, val) ==
    WriteBytes(PutU16(PutU16(PutU16(n, NodeHeaderSize + index * OffsetSize, offset),
                             offset, Len(key)),
                      offset + KeyLenSize, Len(val)),
               offset + KVHeaderSize, key \o val)

\* Search with a comparator that passes the keys greater than key only.
RECURSIVE SearchGreater(_, _, _, _)
SearchGreater(n, key, i, j) ==
    IF i < j
    THEN IF Compare(getLeafKeyValue(n, (i + j) \div 2).key, key) > 0
         THEN SearchGreater(n, key, i, (i + j) \div 2)
         ELSE SearchGreater(n, key, (i + j) \div 2 + 1, j)
    ELSE i

\* sort.Search(count, f): the smallest h in [i, j) with f(h), else j.
RECURSIVE Search(_, _, _, _)
Search(n, key, i, j) ==
    IF i < j
    THEN IF Compare(getLeafKeyValue(n, (i + j) \div 2).key, key) >= 0
         THEN Search(n, key, i, (i + j) \div 2)
         ELSE Search(n, key, (i + j) \div 2 + 1, j)
    ELSE i

\* findKeyInNode with a search that answers the end of the node.
findKeyInNodeLast(n, key) == [index |-> getKeyCount(n), found |-> FALSE]

findKeyInNode(n, key) ==
    With(getKeyCount(n), LAMBDA count :
    With(Search(n, key, 0, count), LAMBDA index :
      [index |-> index,
       found |-> index < count /\ getLeafKeyValue(n, index).key = key]))

getChild(n, index) == Uint64(getLeafKeyValue(n, index).val)

\* The (key, value) pairs of slots first..last-1, in slot order.
Pairs(n, first, last) ==
    [i \in 1..(last - first) |-> getLeafKeyValue(n, first + i - 1)]

EntrySize(p) == KVHeaderSize + Len(p.key) + Len(p.val)

RECURSIVE SumSizes(_, _)
SumSizes(pairs, i) ==
    IF i > Len(pairs) THEN 0 ELSE EntrySize(pairs[i]) + SumSizes(pairs, i + 1)

\* PackFrom with the positions computed and no slot or record rewritten.
PackFromInPlace(d, pairs, i, currentPos) ==
    [node |-> d, pos |-> currentPos + SumSizes(pairs, i)]

\* Writes pairs[i..] contiguously from currentPos, slot i-1 onwards.
RECURSIVE PackFrom(_, _, _, _)
PackFrom(d, pairs, i, currentPos) ==
    IF i > Len(pairs) THEN [node |-> d, pos |-> currentPos]
    ELSE PackFrom(writeLeafKeyValue(d, i - 1, currentPos, pairs[i].key, pairs[i].val),
                  pairs, i + 1, currentPos + EntrySize(pairs[i]))

compact(n, reserveNewEntry) ==
    With(getKeyCount(n), LAMBDA count :
      IF count = 0
      THEN [pos  |-> IF reserveNewEntry THEN NodeHeaderSize + OffsetSize ELSE NodeHeaderSize,
            ok   |-> TRUE,
            node |-> n]
      ELSE
        With(Pairs(n, 0, count), LAMBDA pairs :
        With(NodeHeaderSize + (IF reserveNewEntry THEN count + 1 ELSE count) * OffsetSize,
             LAMBDA startPos :
          IF startPos + SumSizes(pairs, 1) > PageSize
          THEN [pos |-> 0, ok |-> FALSE, node |-> n]
          ELSE With(PackFrom(n, pairs, 1, startPos), LAMBDA packed :
                 [pos |-> packed.pos, ok |-> TRUE, node |-> packed.node]))))

RecordEnd(n, i) ==
    With(getOffset(n, i), LAMBDA off :
      off + KVHeaderSize + U16(n, off) + U16(n, off + 2))

\* HeapScan with a scan that does not look for the lowest record offset.
HeapScanNoHeapStart(n, count) ==
    With(NodeHeaderSize + (count + 1) * OffsetSize, LAMBDA offsetTableEnd :
    With(SetMax({RecordEnd(n, i) : i \in 0..(count - 1)} \cup {NodeHeaderSize + OffsetSize}),
         LAMBDA scanEnd :
      [heapStart |-> PageSize,
       maxEnd    |-> IF scanEnd < offsetTableEnd THEN offsetTableEnd ELSE scanEnd,
       offsetTableEnd |-> offsetTableEnd]))

\* The scan of insertLeafKeyValue over the slots: the lowest record offset
\* (heapStart) and the end of the last record, not below the end of the
\* grown offset table (maxEnd).
HeapScan(n, count) ==
    With(NodeHeaderSize + (count + 1) * OffsetSize, LAMBDA offsetTableEnd :
      IF count = 0
      THEN [heapStart |-> NodeHeaderSize + OffsetSize,
            maxEnd    |-> IF NodeHeaderSize + OffsetSize < offsetTableEnd
                          THEN offsetTableEnd ELSE NodeHeaderSize + OffsetSize,
            offsetTableEnd |-> offsetTableEnd]
      ELSE With(SetMax({RecordEnd(n, i) : i \in 0..(count - 1)} \cup {0}), LAMBDA scanEnd :
             [heapStart |-> SetMin({getOffset(n, i) : i \in 0..(count - 1)} \cup {PageSize}),
              maxEnd    |-> IF scanEnd < offsetTableEnd THEN offsetTableEnd ELSE scanEnd,
              offsetTableEnd |-> offsetTableEnd]))

\* InsertAt with an offset table that is not shifted: the slot at index is
\* overwritten.
InsertAtNoShift(base, index, count, writePos, key, value) ==
    PutU16(writeLeafKeyValue(base, index, writePos, key, value), 1, count + 1)

\* The offset table is shifted open at index and the entry written at
\* writePos of base.
InsertAt(base, index, count, writePos, key, value) ==
    PutU16(writeLeafKeyValue(
               MoveFrom(base, base, NodeHeaderSize + index * OffsetSize + OffsetSize,
                        NodeHeaderSize + index * OffsetSize,
                        NodeHeaderSize + count * OffsetSize),
               index, writePos, key, value),
           1, count + 1)

\* insertEntry with an insert that gives up where the source compacts.
insertEntryNoCompact(n, key, value, dupErr) ==
    With(findKeyInNode(n, key), LAMBDA f :
      IF f.found THEN [err |-> <<dupErr>>, node |-> n]
      ELSE
        With(getKeyCount(n), LAMBDA count :
        With(HeapScan(n, count), LAMBDA h :
          IF \/ h.offsetTableEnd > h.heapStart
             \/ h.maxEnd + KVHeaderSize + Len(key) + Len(value) > PageSize
          THEN [err |-> <<"node is full">>, node |-> n]
          ELSE [err |-> Nil,
                node |-> InsertAt(n, f.index, count, h.maxEnd, key, value)])))

\* insertEntry that counts the new entry before it knows that the entry
\* fits the compacted node.
insertEntryCountFirst(n, key, value, dupErr) ==
    With(findKeyInNode(n, key), LAMBDA f :
      IF f.found THEN [err |-> <<dupErr>>, node |-> n]
      ELSE
        With(getKeyCount(n), LAMBDA count :
        With(HeapScan(n, count), LAMBDA h :
        With(KVHeaderSize + Len(key) + Len(value), LAMBDA newEntrySize :
          IF h.offsetTableEnd > h.heapStart \/ h.maxEnd + newEntrySize > PageSize
          THEN With(compact(n, TRUE), LAMBDA c :
                 IF ~c.ok THEN [err |-> <<"node is full">>, node |-> n]
                 ELSE IF c.pos + newEntrySize > PageSize
                 THEN [err |-> <<"node is full">>,
                       node |-> PutU16(c.node, 1, count + 1)]
                 ELSE [err |-> Nil,
                       node |-> InsertAt(c.node, f.index, count, c.pos, key, value)])
          ELSE [err |-> Nil,
                node |-> InsertAt(n, f.index, count, h.maxEnd, key, value)]))))

\* The body shared by insertLeafKeyValue and insertBranchKey, which differ
\* in the duplicate-key error and in the encoding of the value.
insertEntry(n, key, value, dupErr) ==
    With(findKeyInNode(n, key), LAMBDA f :
      IF f.found THEN [err |-> <<dupErr>>, node |-> n]
      ELSE
        With(getKeyCount(n), LAMBDA count :
        With(HeapScan(n, count), LAMBDA h :
        With(KVHeaderSize + Len(key) + Len(value), LAMBDA newEntrySize :
          IF h.offsetTableEnd > h.heapStart \/ h.maxEnd + newEntrySize > PageSize
          THEN With(compact(n, TRUE), LAMBDA c :
                 IF ~c.ok THEN [err |-> <<"node is full">>, node |-> n]
                 ELSE IF c.pos + newEntrySize > PageSize
                 THEN [err |-> <<"node is full">>, node |-> c.node]
                 ELSE [err |-> Nil,
                       node |-> InsertAt(c.node, f.index, count, c.pos, key, value)])
          ELSE [err |-> Nil,
                node |-> InsertAt(n, f.index, count, h.maxEnd, key, value)]))))

insertLeafKeyValue(n, key, value) ==
    insertEntry(n, key, value, "key already exists")

insertBranchKey(n, key, childPageID) ==
    insertEntry(n, key, PutUint64(childPageID), "key already exists in branch")

\* splitNode with the middle rounded up.
splitNodeCeil(n, newData, nodeType) ==
    With(getKeyCount(n), LAMBDA count :
    With((count + 1) \div 2, LAMBDA middle :
      [promoteKey |-> getLeafKeyValue(n, middle).key,
       node       |-> compact(PutU16(n, 1, middle), FALSE).node,
       newNode    |-> PutU16(PackFrom(PutU16([newData EXCEPT ![0] = nodeType], 1, 0),
                                      Pairs(n, middle, count), 1,
                                      NodeHeaderSize + (count - middle) * OffsetSize).node,
                             1, count - middle)]))

\* splitLeaf and splitBranch share their body but for the type byte of the
\* new node; newData is the buffer the caller hands in (a zero page).
splitNode(n, newData, nodeType) ==
    With(getKeyCount(n), LAMBDA count :
    With(count \div 2, LAMBDA middle :
      [promoteKey |-> getLeafKeyValue(n, middle).key,
       node       |-> compact(PutU16(n, 1, middle), FALSE).node,
       newNode    |-> PutU16(PackFrom(PutU16([newData EXCEPT ![0] = nodeType], 1, 0),
                                      Pairs(n, middle, count), 1,
                                      NodeHeaderSize + (count - middle) * OffsetSize).node,
                             1, count - middle)]))

splitLeaf(n, newData) == splitNode(n, newData, NodeLeaf)

\* splitBranch with the type byte of splitLeaf on the new node.
splitBranchAsLeaf(n, newData) == splitNode(n, newData, NodeLeaf)

splitBranch(n, newData) == splitNode(n, newData, NodeBranch)

\* ---------------------------------------------------------------- Pager
\* The file is a sequence of pages: page id i is file[i + 1].
PagerRead(f, pageID) ==
    IF pageID >= 0 /\ pageID < Len(f)
    THEN [err |-> Nil, data |-> f[pageID + 1]]
    ELSE [err |-> <<"EOF">>, data |-> ZeroPage]

\* WriteAt at pageID * PageSize: a write past the end leaves a hole of zeros.
PagerWriteFile(f, pageID, data) ==
    [i \in 1..(IF pageID + 1 > Len(f) THEN pageID + 1 ELSE Len(f)) |->
        IF i = pageID + 1 THEN data
        ELSE IF i <= Len(f) THEN f[i] ELSE ZeroPage]

\* Pager.Write with a numPages that a write past the known count leaves as
\* it is.
PagerWriteNumPagesStale(n, pageID) == n

\* Pager.Write on numPages: a write at or past the known count raises it.
PagerWriteNumPages(n, pageID) == IF pageID >= n THEN pageID + 1 ELSE n

NewPagerNumPages(f) == Len(f)

\* GetFreePage that returns numPages and leaves it as it was.
GetFreePageNoIncrement(st) ==
    IF Len(st.freePages) > 0
    THEN [pageID |-> st.freePages[Len(st.freePages)],
          st     |-> [st EXCEPT !.freePages = SubSeq(@, 1, Len(@) - 1)]]
    ELSE [pageID |-> st.numPages, st |-> st]

\* GetFreePage with a pager that hands out page id 0.
GetFreePageZero(st) ==
    [pageID |-> 0, st |-> [st EXCEPT !.numPages = @ + 1]]

\* GetFreePage on the pager fields carried in st.
GetFreePage(st) ==
    IF Len(st.freePages) > 0
    THEN [pageID |-> st.freePages[Len(st.freePages)],
          st     |-> [st EXCEPT !.freePages = SubSeq(@, 1, Len(@) - 1)]]
    ELSE [pageID |-> st.numPages,
          st     |-> [st EXCEPT !.numPages = @ + 1]]

\* ----------------------------------------------------------------- Meta
\* serialize with the magic left out: root and free list only.
serializeNoMagic(buf, m) ==
    PutU16(PutU16(PutU16(PutU16(buf, 4, m.Root % 65536), 6, m.Root \div 65536),
                  8, m.FreeList % 65536), 10, m.FreeList \div 65536)

serialize(buf, m) ==
    PutU16(PutU16(PutU16(PutU16(PutU16(PutU16(buf, 0, m.Magic[2]), 2, m.Magic[1]),
                                4, m.Root % 65536), 6, m.Root \div 65536),
                  8, m.FreeList % 65536), 10, m.FreeList \div 65536)

\* A uint32 read as an integer; the model's page ids stay below 2^15.
U32(d, pos) == U16(d, pos) + 65536 * (U16(d, pos + 2) % 32768)

deserialize(buf) ==
    [Magic |-> <<U16(buf, 2), U16(buf, 0)>>, Root |-> U32(buf, 4), FreeList |-> U32(buf, 8)]

\* validate with a check that passes every magic.
validateAny(m) == Nil

validate(m) == IF m.Magic # DBMagic THEN <<"invalid database file: magic mismatch">> ELSE Nil

\* ------------------------------------------------------------------- Tx
\* st carries what a Put may change: the transaction's dirtyNodes and
\* allocated list and the pager's numPages and freePages.
Store(m, k, v) == [x \in (DOMAIN m) \cup {k} |-> IF x = k THEN v ELSE m[x]]

getNode(dirtyNodes, f, pageID) ==
    IF pageID \in DOMAIN dirtyNodes
    THEN [err |-> Nil, node |-> dirtyNodes[pageID]]
    ELSE With(PagerRead(f, pageID), LAMBDA r : [err |-> r.err, node |-> r.data])

allocateNode(st) ==
    With(GetFreePage(st), LAMBDA g :
      [pageID |-> g.pageID,
       st     |-> [g.st EXCEPT !.allocated = Append(@, g.pageID)]])

\* Child selection as written in findLeaf; count - 1 is a uint16.
findLeafChildIndex(node, key) ==
    With(getKeyCount(node), LAMBDA count :
    With(findKeyInNode(node, key).index, LAMBDA index :
    With(IF index < count
            /\ Compare(getLeafKeyValue(node, index).key, key) > 0
            /\ index > 0
         THEN index - 1 ELSE index, LAMBDA back :
      IF back >= count THEN (count - 1) % 65536 ELSE back)))

\* insertChildIndex without the step back from a greater key.
insertChildIndexNoBack(node, key) ==
    With(getKeyCount(node), LAMBDA count :
    With(findKeyInNode(node, key).index, LAMBDA index :
      IF index >= count THEN (count - 1) % 65536 ELSE index))

\* Child selection as written in insertRecursive.
insertChildIndex(node, key) ==
    With(getKeyCount(node), LAMBDA count :
    With(findKeyInNode(node, key).index, LAMBDA index :
    With(IF index < count
         THEN (IF Compare(getLeafKeyValue(node, index).key, key) > 0
               THEN (IF index > 0 THEN index - 1 ELSE index)
               ELSE index)
         ELSE index, LAMBDA back :
      IF back >= count THEN (count - 1) % 65536 ELSE back)))

\* Every slot of the node decodes inside the page.
Decodes(node) ==
    \A i \in 0..(getKeyCount(node) - 1) : getLeafKeyValue(node, i).ok

\* findLeaf: res is "leaf", "err" (a failed page read) or "panic".
RECURSIVE findLeaf(_, _, _, _, _)
findLeaf(dirtyNodes, f, pageID, key, fuel) ==
    With(getNode(dirtyNodes, f, pageID), LAMBDA g :
      IF g.err # Nil THEN [res |-> "err", node |-> ZeroPage]
      ELSE IF getType(g.node) = NodeLeaf THEN [res |-> "leaf", node |-> g.node]
      ELSE IF fuel = 0 \/ ~Decodes(g.node) THEN [res |-> "panic", node |-> ZeroPage]
      ELSE With(getLeafKeyValue(g.node, findLeafChildIndex(g.node, key)), LAMBDA entry :
             IF ~entry.ok \/ Len(entry.val) < 8
             THEN [res |-> "panic", node |-> ZeroPage]
             ELSE findLeaf(dirtyNodes, f, Uint64(entry.val), key, fuel - 1)))

\* Tx.Get descends from db.Root.
TxGet(dirtyNodes, f, root, key) ==
    With(findLeaf(dirtyNodes, f, root, key, MaxDepth), LAMBDA l :
      IF l.res = "err" THEN [err |-> <<"EOF">>, val |-> Nil]
      ELSE IF l.res = "panic" \/ ~Decodes(l.node) THEN [err |-> <<"panic">>, val |-> Nil]
      ELSE With(findKeyInNode(l.node, key), LAMBDA r :
             IF ~r.found THEN [err |-> <<"key not found">>, val |-> Nil]
             ELSE [err |-> Nil, val |-> getLeafKeyValue(l.node, r.index).val]))

NoSplit(err, st) == [promoted |-> FALSE, newKey |-> Nil, newPageID |-> 0, err |-> err, st |-> st]

Promote(k, id, st) == [promoted |-> TRUE, newKey |-> k, newPageID |-> id, err |-> Nil, st |-> st]

IsNodeFull(err) == err = <<"node is full">> \/ err = <<"node is full (fragmentation)">>

\* The split of a full node of page pageID: sp is the result of splitLeaf
\* or splitBranch, re that of the insert into the half the key belongs to
\* (the old node if old), a the newly allocated node.
AfterSplit(a, pageID, sp, old, re, errOld, errNew) ==
    IF re.err # Nil
    THEN NoSplit(<<IF old THEN errOld ELSE errNew>> \o re.err, a.st)
    ELSE Promote(sp.promoteKey, a.pageID,
           [a.st EXCEPT !.dirtyNodes =
              Store(Store(@, pageID, IF old THEN re.node ELSE sp.node),
                    a.pageID, IF old THEN sp.newNode ELSE re.node)])

insertRecursiveLeaf(st, pageID, node, key, value) ==
    With(insertLeafKeyValue(node, key, value), LAMBDA ins :
      IF ins.err = Nil
      THEN NoSplit(Nil, [st EXCEPT !.dirtyNodes = Store(@, pageID, ins.node)])
      ELSE IF ~IsNodeFull(ins.err) THEN NoSplit(ins.err, st)
      ELSE
        With(allocateNode(st), LAMBDA a :
        With(splitLeaf(ins.node, ZeroPage), LAMBDA sp :
        With(Compare(key, sp.promoteKey) < 0, LAMBDA old :
        With(insertLeafKeyValue(IF old THEN sp.node ELSE sp.newNode, key, value),
             LAMBDA re : AfterSplit(a, pageID, sp, old, re,
                                    "failed to insert key into old leaf after split",
                                    "failed to insert key into new leaf after split"))))))

\* The branch case after the recursive call returned the promotion (k, p).
insertRecursiveBranch(st, pageID, node, k, p) ==
    With(insertBranchKey(node, k, p), LAMBDA ins :
      IF ins.err = Nil
      THEN NoSplit(Nil, [st EXCEPT !.dirtyNodes = Store(@, pageID, ins.node)])
      ELSE IF ~IsNodeFull(ins.err) THEN NoSplit(ins.err, st)
      ELSE
        With(allocateNode(st), LAMBDA a :
        With(splitBranch(ins.node, ZeroPage), LAMBDA sp :
        With(Compare(k, sp.promoteKey) < 0, LAMBDA old :
        With(insertBranchKey(IF old THEN sp.node ELSE sp.newNode, k, p),
             LAMBDA re : AfterSplit(a, pageID, sp, old, re,
                                    "failed to insert key into old branch node after split",
                                    "failed to insert key into new branch node after split"))))))

RECURSIVE insertRecursive(_, _, _, _, _)
insertRecursive(st, f, pageID, key, value) ==
    With(getNode(st.dirtyNodes, f, pageID), LAMBDA g :
      IF g.err # Nil THEN NoSplit(<<"failed to read page">> \o g.err, st)
      ELSE IF getType(g.node) = NodeLeaf
      THEN insertRecursiveLeaf(st, pageID, g.node, key, value)
      ELSE
        With(insertRecursive(st, f, getChild(g.node, insertChildIndex(g.node, key)),
                             key, value), LAMBDA r :
          IF r.err # Nil THEN NoSplit(r.err, r.st)
          ELSE IF ~r.promoted THEN NoSplit(Nil, r.st)
          ELSE insertRecursiveBranch(r.st, pageID, g.node, r.newKey, r.newPageID)))

\* NewRoot that stages the new root and leaves tx.root as it was.
NewRootKeepsRoot(a, f, root, r) ==
    With(getNode(a.st.dirtyNodes, f, root), LAMBDA old :
    With(insertBranchKey(PutU16([ZeroPage EXCEPT ![0] = NodeBranch], 1, 0),
                         getLeafKeyValue(old.node, 0).key, root), LAMBDA i1 :
    With(insertBranchKey(i1.node, r.newKey, r.newPageID), LAMBDA i2 :
      [err  |-> Nil,
       st   |-> [a.st EXCEPT !.dirtyNodes = Store(@, a.pageID, i2.node)],
       root |-> root])))

\* The growth of the tree in Tx.Put: a new root over the old root and the
\* promoted page.
NewRoot(a, f, root, r) ==
    With(getNode(a.st.dirtyNodes, f, root), LAMBDA old :
      IF old.err # Nil
      THEN [err |-> <<"failed to read old root">> \o old.err, st |-> a.st, root |-> root]
      ELSE
        With(insertBranchKey(PutU16([ZeroPage EXCEPT ![0] = NodeBranch], 1, 0),
                             getLeafKeyValue(old.node, 0).key, root), LAMBDA i1 :
          IF i1.err # Nil THEN [err |-> i1.err, st |-> a.st, root |-> root]
          ELSE With(insertBranchKey(i1.node, r.newKey, r.newPageID), LAMBDA i2 :
                 IF i2.err # Nil THEN [err |-> i2.err, st |-> a.st, root |-> root]
                 ELSE [err  |-> Nil,
                       st   |-> [a.st EXCEPT !.dirtyNodes = Store(@, a.pageID, i2.node)],
                       root |-> a.pageID])))

\* Tx.Put: the result carries the error, the changed st and tx.root.
TxPut(st, f, root, key, value) ==
    With(insertRecursive(st, f, root, key, value), LAMBDA r :
      IF r.err # Nil THEN [err |-> r.err, st |-> r.st, root |-> root]
      ELSE IF ~r.promoted THEN [err |-> Nil, st |-> r.st, root |-> root]
      ELSE With(allocateNode(r.st), LAMBDA a : NewRoot(a, f, root, r)))

\* Page ids reachable from pageID in the file f.
RECURSIVE Reachable(_, _, _)
Reachable(f, pageID, fuel) ==
    With(PagerRead(f, pageID), LAMBDA r :
      IF r.err # Nil \/ fuel = 0 THEN {pageID}
      ELSE IF getType(r.data) = NodeLeaf \/ ~Decodes(r.data) THEN {pageID}
      ELSE {pageID} \cup
           UNION {Reachable(f, getChild(r.data, i), fuel - 1) :
                      i \in 0..(getKeyCount(r.data) - 1)})

\* ---------------------------------------------------------------- state
VARIABLES
    file,       \* the database file: a sequence of pages
    pager,      \* Pager: open (the file handle), numPages, freePages
    db,         \* DB: open, Root, Meta
    tx,         \* per goroutine: the Tx of the Update or View it is running
    pc,         \* per goroutine: where it is in Update or View
    lock,       \* the DB's RWMutex: writer, readers, waiting writers
    committed,  \* the pairs put without error by the Updates that committed
    staged,     \* per goroutine: the pairs put without error by its transaction
    allOk,      \* no Put has failed so far
    published,  \* root and file as the last Commit to end published them
    snap,       \* per goroutine: the published state when its View took the lock
    torn,       \* the process was killed inside a Commit that had not published
    reopened,   \* the DB was opened from a file that held pages, and no Update began since
    rolledBack, \* the last Update to end was rolled back
    ops,        \* the number of operations applied to a Node taken alone
    issued      \* the page ids GetFreePage has returned since the Pager was opened

vars == <<file, pager, db, tx, pc, lock, committed, staged, allOk, published, snap,
          torn, reopened, rolledBack, ops, issued>>

Procs == 1..NumProcs

Keys == {<<k>> : k \in 1..MaxKey}

\* The keys of the single-Put Updates: two more than Keys.
TreeKeys == {<<k>> : k \in 1..(MaxKey + 2)}

\* The value the model's callbacks put under key k.
ValueOf(key) == [j \in 1..ValLen |-> key[1] + 16 * j]

\* The longest value that fits a page together with a one-byte key and
\* one slot: KVHeaderSize + 1 + BigLen = PageSize - NodeHeaderSize - OffsetSize.
BigLen == PageSize - NodeHeaderSize - OffsetSize - KVHeaderSize - 1

\* The lengths of the values put where the sizes of the entries differ.
ValLens == {ValLen, BigLen}

SizedValue(key, len) == [j \in 1..len |-> (key[1] + 16 * j) % 256]

\* The value a callback puts under a key that holds ValueOf(key) already.
OtherValue(key) == [j \in 1..ValLen |-> key[1] + 16 * j + 1]

\* What Get returns for every key, descending from root in the file f.
Visible(f, root) == [key \in TreeKeys |-> TxGet(<<>>, f, root, key)]

NoSnap == [root |-> 0, file |-> <<>>]

NoTx == [active |-> FALSE, writable |-> FALSE, dirtyNodes |-> <<>>,
         allocated |-> <<>>, root |-> 0, written |-> {}, before |-> NoSnap,
         err |-> Nil]

NoDB == [open |-> FALSE, Root |-> 0, Meta |-> [Magic |-> <<0, 0>>, Root |-> 0, FreeList |-> 0]]

NoPager == [open |-> FALSE, numPages |-> 0, freePages |-> <<>>]

NoLock == [writer |-> 0, readers |-> {}, waiting |-> {}]

Init ==
    /\ file = <<>>
    /\ pager = NoPager
    /\ db = NoDB
    /\ tx = [p \in Procs |-> NoTx]
    /\ pc = [p \in Procs |-> "idle"]
    /\ lock = NoLock
    /\ committed = <<>>
    /\ staged = [p \in Procs |-> <<>>]
    /\ allOk = TRUE
    /\ published = NoSnap
    /\ snap = [p \in Procs |-> NoSnap]
    /\ torn = FALSE
    /\ reopened = FALSE
    /\ rolledBack = FALSE
    /\ ops = 0
    /\ issued = {}

\* ----------------------------------------------------------------- Open
\* The bootstrap of Open on an empty file f: the meta page and an empty
\* root leaf are written.
Bootstrap(f) ==
    LET meta     == [Magic |-> DBMagic, Root |-> 1, FreeList |-> 0]
        rootNode == PutU16([ZeroPage EXCEPT ![0] = NodeLeaf], 1, 0)
        f1       == PagerWriteFile(f, MetaPageID, serialize(ZeroPage, meta))
    IN  [file  |-> PagerWriteFile(f1, 1, rootNode),
         pager |-> [open |-> TRUE,
                    numPages |-> PagerWriteNumPages(
                                    PagerWriteNumPages(NewPagerNumPages(f), MetaPageID), 1),
                    freePages |-> <<>>],
         db    |-> [open |-> TRUE, Root |-> 1, Meta |-> meta]]

OpenNew ==
    \E b \in {Bootstrap(file)} :
        /\ file' = b.file
        /\ pager' = b.pager
        /\ db' = b.db
        /\ published' = [root |-> 1, file |-> b.file]
        /\ reopened' = FALSE

\* Open on a file that holds pages: reads and validates the meta page.
OpenExisting ==
    LET meta == deserialize(PagerRead(file, MetaPageID).data) IN
    /\ file' = file
    /\ pager' = [open |-> TRUE, numPages |-> NewPagerNumPages(file), freePages |-> <<>>]
    /\ db' = IF validate(meta) # Nil THEN NoDB
             ELSE [open |-> TRUE, Root |-> meta.Root, Meta |-> meta]
    /\ published' = published
    /\ reopened' = (validate(meta) = Nil)

Open ==
    /\ ~db.open /\ ~pager.open
    /\ IF Len(file) = 0 THEN OpenNew ELSE OpenExisting
    /\ issued' = {}
    /\ UNCHANGED <<ops, tx, pc, lock, committed, staged, allOk, snap, torn, rolledBack>>

\* db.Pager.Close(), with no transaction running.
Close ==
    /\ db.open
    /\ \A p \in Procs : pc[p] = "idle"
    /\ db' = NoDB
    /\ pager' = NoPager
    /\ issued' = {}
    /\ rolledBack' = FALSE
    /\ UNCHANGED <<ops, file, tx, pc, lock, committed, staged, allOk, published, snap, torn, reopened>>

\* The process is killed: the file keeps every write that returned, and
\* everything in memory is gone.
Kill ==
    /\ db.open
    /\ ~torn
    /\ db' = NoDB
    /\ pager' = NoPager
    /\ tx' = [p \in Procs |-> NoTx]
    /\ pc' = [p \in Procs |-> "idle"]
    /\ lock' = NoLock
    /\ staged' = [p \in Procs |-> <<>>]
    /\ snap' = [p \in Procs |-> NoSnap]
    /\ torn' = \E p \in Procs : pc[p] \in {"commit", "meta"}
    /\ rolledBack' = FALSE
    /\ issued' = {}
    /\ UNCHANGED <<ops, file, committed, allOk, published, reopened>>

\* --------------------------------------------------------- Update / View
\* db.Begin(writable); before is the committed state a write transaction
\* starts from, err the error its last Put returned.
Begin(d, f, writable) ==
    [active |-> TRUE, writable |-> writable, dirtyNodes |-> <<>>,
     allocated |-> <<>>, root |-> d.Root, written |-> {},
     before |-> IF writable THEN [root |-> d.Root, file |-> f] ELSE NoSnap,
     err |-> Nil]

\* Tx.Rollback drops the transaction's references.
Rollback(t) == [t EXCEPT !.active = FALSE, !.dirtyNodes = <<>>]

\* mu.Unlock(): the readers blocked behind the writer are let in.
\* The goroutines blocked in mu.RLock(), which mu.Unlock() lets into View.
Admitted == {q \in Procs : pc[q] = "waitR"}

\* Goroutine p leaves its Update: the deferred Rollback and Unlock run and
\* the Tx goes out of scope.
Leave(p) ==
    /\ lock' = [lock EXCEPT !.writer = 0, !.readers = Admitted]
    /\ pc' = [q \in Procs |-> IF q = p THEN "idle"
                              ELSE IF q \in Admitted THEN "view" ELSE pc[q]]
    /\ tx' = [q \in Procs |-> IF q = p THEN NoTx
                              ELSE IF q \in Admitted
                                   THEN Begin(db', file', FALSE)
                                   ELSE tx[q]]
    /\ snap' = [q \in Procs |-> IF q \in Admitted THEN published'
                                ELSE snap[q]]
    /\ staged' = [staged EXCEPT ![p] = <<>>]

\* Update is called: the goroutine blocks in mu.Lock().
Update(p) ==
    /\ db.open
    /\ ~torn
    /\ pc[p] = "idle"
    /\ pc' = [pc EXCEPT ![p] = "waitW"]
    /\ lock' = [lock EXCEPT !.waiting = @ \cup {p}]
    /\ UNCHANGED <<ops, issued, file, pager, db, tx, committed, staged, allOk, published, snap, torn, reopened, rolledBack>>

\* UpdateBegin with a Lock that does not wait for the holders of the lock.
UpdateBeginNoWait(p) ==
    /\ pc[p] = "waitW"
    /\ lock' = [lock EXCEPT !.writer = p, !.waiting = @ \ {p}]
    /\ tx' = [tx EXCEPT ![p] = Begin(db, file, TRUE)]
    /\ pc' = [pc EXCEPT ![p] = "update"]
    /\ staged' = [staged EXCEPT ![p] = <<>>]
    /\ rolledBack' = FALSE
    /\ reopened' = FALSE
    /\ UNCHANGED <<ops, issued, file, pager, db, committed, allOk, published, snap, torn>>

\* mu.Lock() returns, Begin(true), and into the callback.
UpdateBegin(p) ==
    /\ pc[p] = "waitW"
    /\ lock.writer = 0 /\ lock.readers = {}
    /\ lock' = [lock EXCEPT !.writer = p, !.waiting = @ \ {p}]
    /\ tx' = [tx EXCEPT ![p] = Begin(db, file, TRUE)]
    /\ pc' = [pc EXCEPT ![p] = "update"]
    /\ staged' = [staged EXCEPT ![p] = <<>>]
    /\ rolledBack' = FALSE
    /\ reopened' = FALSE
    /\ UNCHANGED <<ops, issued, file, pager, db, committed, allOk, published, snap, torn>>

Merge(a, b) == [k \in (DOMAIN a) \cup (DOMAIN b) |-> IF k \in DOMAIN b THEN b[k] ELSE a[k]]

\* The flush loop of Commit, run to its end.
RECURSIVE WriteAll(_, _, _)
WriteAll(f, dirtyNodes, ids) ==
    IF ids = {} THEN f
    ELSE LET id == CHOOSE x \in ids : TRUE
         IN  WriteAll(PagerWriteFile(f, id, dirtyNodes[id]), dirtyNodes, ids \ {id})

RECURSIVE NumPagesAfter(_, _)
NumPagesAfter(n, ids) ==
    IF ids = {} THEN n
    ELSE LET id == CHOOSE x \in ids : TRUE
         IN  NumPagesAfter(PagerWriteNumPages(n, id), ids \ {id})

\* issued after a Put that left the list allocated in the Tx: allocateNode
\* appends every page id GetFreePage returns to it.
Issued(allocated) == issued \cup {allocated[j] : j \in 1..Len(allocated)}

\* The Tx and the pager after tx.Put(key, ValueOf(key)).
PutResult(p, key) ==
    TxPut([dirtyNodes |-> tx[p].dirtyNodes, allocated |-> tx[p].allocated,
           numPages |-> pager.numPages, freePages |-> pager.freePages],
          file, tx[p].root, key, ValueOf(key))

\* PutKey with a Put that writes the nodes it changed to the file at once.
PutKeyWriteThrough(p, key) ==
    /\ pc[p] = "update"
    /\ key[1] \notin (DOMAIN committed) \cup (DOMAIN staged[p])
    /\ pager.numPages <= MaxPages
    /\ \E r \in {PutResult(p, key)} :
           /\ tx' = [tx EXCEPT ![p].dirtyNodes = r.st.dirtyNodes,
                                ![p].allocated = r.st.allocated,
                                ![p].root = r.root,
                                ![p].err = r.err]
           /\ pager' = [pager EXCEPT !.numPages = r.st.numPages,
                                     !.freePages = r.st.freePages]
           /\ file' = WriteAll(file, r.st.dirtyNodes, DOMAIN r.st.dirtyNodes)
           /\ staged' = IF r.err = Nil
                        THEN [staged EXCEPT ![p] = Store(@, key[1], ValueOf(key))]
                        ELSE staged
           /\ allOk' = (allOk /\ r.err = Nil)
           /\ issued' = Issued(r.st.allocated)
    /\ UNCHANGED <<ops, db, pc, lock, committed, published, snap, torn, reopened, rolledBack>>

\* tx.Put(key, ValueOf(key)) inside the callback of Update, for a key that
\* was not put before.
PutKey(p, key) ==
    /\ pc[p] = "update"
    /\ key[1] \notin (DOMAIN committed) \cup (DOMAIN staged[p])
    /\ pager.numPages <= MaxPages
    /\ \E r \in {PutResult(p, key)} :
           /\ tx' = [tx EXCEPT ![p].dirtyNodes = r.st.dirtyNodes,
                                ![p].allocated = r.st.allocated,
                                ![p].root = r.root,
                                ![p].err = r.err]
           /\ pager' = [pager EXCEPT !.numPages = r.st.numPages,
                                     !.freePages = r.st.freePages]
           /\ staged' = IF r.err = Nil
                        THEN [staged EXCEPT ![p] = Store(@, key[1], ValueOf(key))]
                        ELSE staged
           /\ allOk' = (allOk /\ r.err = Nil)
           /\ issued' = Issued(r.st.allocated)
    /\ UNCHANGED <<ops, file, db, pc, lock, committed, published, snap, torn, reopened, rolledBack>>

Put(p) == \E key \in Keys : PutKey(p, key)

\* What tx.Put(key, value) changes, on the Tx of goroutine p.
Staging(p, key, value) ==
    \E r \in {TxPut([dirtyNodes |-> tx[p].dirtyNodes, allocated |-> tx[p].allocated,
                     numPages |-> pager.numPages, freePages |-> pager.freePages],
                    file, tx[p].root, key, value)} :
        /\ tx' = [tx EXCEPT ![p].dirtyNodes = r.st.dirtyNodes,
                             ![p].allocated = r.st.allocated,
                             ![p].root = r.root,
                             ![p].err = r.err]
        /\ pager' = [pager EXCEPT !.numPages = r.st.numPages,
                                  !.freePages = r.st.freePages]
        /\ staged' = IF r.err = Nil
                     THEN [staged EXCEPT ![p] = Store(@, key[1], value)]
                     ELSE staged
        /\ allOk' = (allOk /\ r.err = Nil)
        /\ issued' = Issued(r.st.allocated)

\* The value under key that the Tx of goroutine p was given or began with.
Held(p) == Merge(committed, staged[p])

\* tx.Put(key, OtherValue(key)) inside the callback of Update, for a key
\* that was put before, by this transaction or by a committed one.
PutAgainKey(p, key) ==
    /\ pc[p] = "update"
    /\ key[1] \in DOMAIN Held(p)
    /\ pager.numPages <= MaxPages
    /\ Staging(p, key, OtherValue(key))
    /\ UNCHANGED <<ops, file, db, pc, lock, committed, published, snap, torn, reopened, rolledBack>>

PutAgain(p) == \E key \in Keys : PutAgainKey(p, key)

\* tx.Put(key, value) inside the callback of Update, for a key that was
\* not put before and a value of one of the lengths ValLens.
PutSizedKey(p, key, len) ==
    /\ pc[p] = "update"
    /\ key[1] \notin DOMAIN Held(p)
    /\ pager.numPages <= MaxPages
    /\ Staging(p, key, SizedValue(key, len))
    /\ UNCHANGED <<ops, file, db, pc, lock, committed, published, snap, torn, reopened, rolledBack>>

PutSized(p) == \E key \in Keys, len \in ValLens : PutSizedKey(p, key, len)

\* CallbackErr with an Update that returns without Unlock.
CallbackErrHolding(p) ==
    /\ pc[p] = "update"
    /\ rolledBack' = TRUE
    /\ pc' = [pc EXCEPT ![p] = "idle"]
    /\ tx' = [tx EXCEPT ![p] = NoTx]
    /\ staged' = [staged EXCEPT ![p] = <<>>]
    /\ UNCHANGED <<ops, issued, file, pager, db, lock, committed, allOk, published, snap, torn, reopened>>

\* The callback returns an error: the deferred Rollback and Unlock run.
CallbackErr(p) ==
    /\ pc[p] = "update"
    /\ rolledBack' = TRUE
    /\ UNCHANGED <<ops, issued, file, pager, db, committed, allOk, published, torn, reopened>>
    /\ Leave(p)

\* writeMeta with a write that does not reach the file.
writeMetaLost(f, meta) == f

\* db.writeMeta: the meta page is serialized, written to page 0 and synced.
writeMeta(f, meta) == PagerWriteFile(f, MetaPageID, serialize(ZeroPage, meta))

\* The file and the DB after Tx.Commit ran to its end without an I/O error.
Committed(t, f, d) ==
    With(WriteAll(f, t.dirtyNodes, DOMAIN t.dirtyNodes), LAMBDA flushed :
      IF t.root # d.Root
      THEN [file |-> writeMeta(flushed, [d.Meta EXCEPT !.Root = t.root]),
            db   |-> [d EXCEPT !.Meta.Root = t.root, !.Root = t.root]]
      ELSE [file |-> flushed, db |-> d])

\* The callback returns nil and Tx.Commit runs to its end without an I/O
\* error, followed by the deferred Rollback and Unlock.
Commit(p) ==
    /\ pc[p] = "update"
    /\ tx[p].writable
    /\ \E c \in {Committed(tx[p], file, db)} :
           /\ file' = c.file
           /\ db' = c.db
           /\ published' = [root |-> c.db.Root, file |-> c.file]
    /\ pager' = [pager EXCEPT !.numPages = NumPagesAfter(@, DOMAIN tx[p].dirtyNodes)]
    /\ committed' = Merge(committed, staged[p])
    /\ Leave(p)
    /\ UNCHANGED <<ops, issued, allOk, torn, reopened, rolledBack>>

\* ------------------------------------------------------ Commit, stepwise
\* The callback returns nil and Update calls Tx.Commit.
CallbackOk(p) ==
    /\ pc[p] = "update"
    /\ tx[p].writable
    /\ pc' = [pc EXCEPT ![p] = "commit"]
    /\ UNCHANGED <<ops, issued, file, pager, db, tx, lock, committed, staged, allOk, published, snap, torn, reopened, rolledBack>>

\* One iteration of the flush loop: Pager.Write(pageID, node.data).  The
\* loop ranges over a map, so the dirty pages are written in any order.
CommitWrite(p) ==
    /\ pc[p] = "commit"
    /\ \E pageID \in (DOMAIN tx[p].dirtyNodes) \ tx[p].written :
           /\ file' = PagerWriteFile(file, pageID, tx[p].dirtyNodes[pageID])
           /\ pager' = [pager EXCEPT !.numPages = PagerWriteNumPages(@, pageID)]
           /\ tx' = [tx EXCEPT ![p].written = @ \cup {pageID}]
    /\ UNCHANGED <<ops, issued, db, pc, lock, committed, staged, allOk, published, snap, torn, reopened, rolledBack>>

\* Pager.Sync() after the flush loop.  With an unchanged root Commit is
\* over and what it wrote is the committed state.
CommitSync(p) ==
    /\ pc[p] = "commit"
    /\ tx[p].written = DOMAIN tx[p].dirtyNodes
    /\ IF tx[p].root # db.Root
       THEN /\ pc' = [pc EXCEPT ![p] = "meta"]
            /\ UNCHANGED <<ops, issued, committed, published>>
       ELSE /\ pc' = [pc EXCEPT ![p] = "done"]
            /\ committed' = Merge(committed, staged[p])
            /\ published' = [root |-> db.Root, file |-> file]
    /\ UNCHANGED <<ops, issued, file, pager, db, tx, lock, staged, allOk, snap, torn, reopened, rolledBack>>

\* The root changed: db.Meta.Root is set, writeMeta writes and syncs page
\* 0, and db.Root is set.
CommitMeta(p) ==
    /\ pc[p] = "meta"
    /\ \E meta \in {[db.Meta EXCEPT !.Root = tx[p].root]} :
           /\ file' = writeMeta(file, meta)
           /\ db' = [db EXCEPT !.Meta = meta, !.Root = tx[p].root]
           /\ published' = [root |-> tx[p].root, file |-> writeMeta(file, meta)]
    /\ pc' = [pc EXCEPT ![p] = "done"]
    /\ committed' = Merge(committed, staged[p])
    /\ UNCHANGED <<ops, issued, pager, tx, lock, staged, allOk, snap, torn, reopened, rolledBack>>

\* Commit returned nil: the deferred Rollback and Unlock run.
CommitReturn(p) ==
    /\ pc[p] = "done"
    /\ UNCHANGED <<ops, issued, file, pager, db, committed, allOk, published, torn, reopened, rolledBack>>
    /\ Leave(p)

\* ------------------------------------- Commit, with the meta update split
\* CommitMetaWrite with a meta update that does not wait for the flush loop
\* and Sync.
CommitMetaWriteEarly(p) ==
    /\ pc[p] = "commit"
    /\ tx[p].root # db.Root
    /\ \E meta \in {[db.Meta EXCEPT !.Root = tx[p].root]} :
           /\ file' = writeMeta(file, meta)
           /\ db' = [db EXCEPT !.Meta = meta]
    /\ pc' = [pc EXCEPT ![p] = "root"]
    /\ UNCHANGED <<ops, issued, pager, tx, lock, committed, staged, allOk, published, snap, torn, reopened, rolledBack>>

\* The root changed: db.Meta.Root is set and writeMeta returns nil.
CommitMetaWrite(p) ==
    /\ pc[p] = "meta"
    /\ \E meta \in {[db.Meta EXCEPT !.Root = tx[p].root]} :
           /\ file' = writeMeta(file, meta)
           /\ db' = [db EXCEPT !.Meta = meta]
    /\ pc' = [pc EXCEPT ![p] = "root"]
    /\ UNCHANGED <<ops, issued, pager, tx, lock, committed, staged, allOk, published, snap, torn, reopened, rolledBack>>

\* db.Meta.Root is set and writeMeta returns an error, from its write or
\* from its sync: page 0 was written or was not, and Commit returns.
CommitMetaFail(p) ==
    /\ pc[p] = "meta"
    /\ \E meta \in {[db.Meta EXCEPT !.Root = tx[p].root]} :
           /\ \E f \in {file, writeMeta(file, meta)} : file' = f
           /\ db' = [db EXCEPT !.Meta = meta]
    /\ pc' = [pc EXCEPT ![p] = "failed"]
    /\ UNCHANGED <<ops, issued, pager, tx, lock, committed, staged, allOk, published, snap, torn, reopened, rolledBack>>

\* tx.db.Root = tx.root, after writeMeta returned nil.
CommitRoot(p) ==
    /\ pc[p] = "root"
    /\ db' = [db EXCEPT !.Root = tx[p].root]
    /\ published' = [root |-> tx[p].root, file |-> file]
    /\ pc' = [pc EXCEPT ![p] = "done"]
    /\ committed' = Merge(committed, staged[p])
    /\ UNCHANGED <<ops, issued, file, pager, tx, lock, staged, allOk, snap, torn, reopened, rolledBack>>

\* Commit returned an error: Update returns it after the deferred Rollback
\* and Unlock.
CommitFailed(p) ==
    /\ pc[p] = "failed"
    /\ rolledBack' = TRUE
    /\ UNCHANGED <<ops, issued, file, pager, db, committed, allOk, published, torn, reopened>>
    /\ Leave(p)

\* ------------------------------------------------------------- Rollback
\* tx.Rollback() with a Rollback that puts the root the transaction began
\* with back into the meta page and the DB.
RollbackCallRestoring(p) ==
    /\ pc[p] \in {"update", "done"}
    /\ tx' = [tx EXCEPT ![p] = Rollback(@)]
    /\ \E meta \in {[db.Meta EXCEPT !.Root = tx[p].before.root]} :
           /\ file' = writeMeta(file, meta)
           /\ db' = [db EXCEPT !.Meta = meta, !.Root = tx[p].before.root]
    /\ UNCHANGED <<ops, issued, pager, pc, lock, committed, staged, allOk, published, snap, torn, reopened, rolledBack>>

\* tx.Rollback() is called, by the callback of Update or by Update after
\* Commit returned; a second call finds the Tx as the first left it.
RollbackCall(p) ==
    /\ pc[p] \in {"update", "done"}
    /\ tx' = [tx EXCEPT ![p] = Rollback(@)]
    /\ UNCHANGED <<ops, issued, file, pager, db, pc, lock, committed, staged, allOk, published, snap, torn, reopened, rolledBack>>

\* ----------------------------------------------------------------- View
\* View is called: the goroutine blocks in mu.RLock().
View(p) ==
    /\ db.open
    /\ pc[p] = "idle"
    /\ pc' = [pc EXCEPT ![p] = "waitR"]
    /\ UNCHANGED <<ops, issued, file, pager, db, tx, lock, committed, staged, allOk, published, snap, torn, reopened, rolledBack>>

\* ViewBegin with an RLock that does not wait for the writer.
ViewBeginNoWait(p) ==
    /\ pc[p] = "waitR"
    /\ lock' = [lock EXCEPT !.readers = @ \cup {p}]
    /\ tx' = [tx EXCEPT ![p] = Begin(db, file, FALSE)]
    /\ pc' = [pc EXCEPT ![p] = "view"]
    /\ snap' = [snap EXCEPT ![p] = published]
    /\ UNCHANGED <<ops, issued, file, pager, db, committed, staged, allOk, published, torn, reopened, rolledBack>>

\* mu.RLock() returns while no writer holds or waits for the lock,
\* Begin(false), and into the callback.
ViewBegin(p) ==
    /\ pc[p] = "waitR"
    /\ lock.writer = 0 /\ lock.waiting = {}
    /\ lock' = [lock EXCEPT !.readers = @ \cup {p}]
    /\ tx' = [tx EXCEPT ![p] = Begin(db, file, FALSE)]
    /\ pc' = [pc EXCEPT ![p] = "view"]
    /\ snap' = [snap EXCEPT ![p] = published]
    /\ UNCHANGED <<ops, issued, file, pager, db, committed, staged, allOk, published, torn, reopened, rolledBack>>

\* tx.Put(key, ValueOf(key)) inside the callback of View, on the read-only
\* Tx: Put does not look at tx.writable.
ViewPutKey(p, key) ==
    /\ pc[p] = "view"
    /\ key[1] \notin DOMAIN Held(p)
    /\ pager.numPages <= MaxPages
    /\ Staging(p, key, ValueOf(key))
    /\ UNCHANGED <<ops, file, db, pc, lock, committed, published, snap, torn, reopened, rolledBack>>

ViewPut(p) == \E key \in Keys : ViewPutKey(p, key)

\* The callback of View returns: the deferred Rollback and RUnlock run.
ViewEnd(p) ==
    /\ pc[p] = "view"
    /\ lock' = [lock EXCEPT !.readers = @ \ {p}]
    /\ tx' = [tx EXCEPT ![p] = NoTx]
    /\ pc' = [pc EXCEPT ![p] = "idle"]
    /\ snap' = [snap EXCEPT ![p] = NoSnap]
    /\ UNCHANGED <<ops, issued, file, pager, db, committed, staged, allOk, published, torn, reopened, rolledBack>>

\* ------------------------------------------------ Update with a single Put
\* db.Update(func(tx) error { return tx.Put(key, ValueOf(key)) }) on the
\* database s = [file, pager, db], run from the call to the return: the
\* Put, then Commit when it returned nil and Rollback otherwise.
UpdateOnce(s, key) ==
    With(TxPut([dirtyNodes |-> <<>>, allocated |-> <<>>,
                numPages |-> s.pager.numPages, freePages |-> s.pager.freePages],
               s.file, s.db.Root, key, ValueOf(key)), LAMBDA r :
      IF r.err = Nil
      THEN With(Committed([dirtyNodes |-> r.st.dirtyNodes, root |-> r.root], s.file, s.db),
                LAMBDA c :
             [err   |-> Nil, file |-> c.file, db |-> c.db, allocated |-> r.st.allocated,
              pager |-> [s.pager EXCEPT
                            !.numPages = NumPagesAfter(r.st.numPages, DOMAIN r.st.dirtyNodes),
                            !.freePages = r.st.freePages]])
      ELSE [err   |-> r.err, file |-> s.file, db |-> s.db, allocated |-> r.st.allocated,
            pager |-> [s.pager EXCEPT !.numPages = r.st.numPages,
                                      !.freePages = r.st.freePages]])

UpdatePut(key) ==
    /\ db.open
    /\ \A p \in Procs : pc[p] = "idle"
    /\ key[1] \notin DOMAIN committed
    /\ pager.numPages <= MaxPages
    /\ \E u \in {UpdateOnce([file |-> file, pager |-> pager, db |-> db], key)} :
           /\ file' = u.file
           /\ pager' = u.pager
           /\ db' = u.db
           /\ committed' = IF u.err = Nil THEN Store(committed, key[1], ValueOf(key))
                           ELSE committed
           /\ allOk' = (allOk /\ u.err = Nil)
           /\ published' = IF u.err = Nil
                           THEN [root |-> u.db.Root, file |-> u.file]
                           ELSE published
           /\ rolledBack' = (u.err # Nil)
           /\ issued' = Issued(u.allocated)
    /\ reopened' = FALSE
    /\ UNCHANGED <<ops, tx, pc, lock, staged, snap, torn>>

\* ------------------------------------------------------ the specifications
\* One goroutine: Open, Updates whose callbacks put keys and return nil or
\* an error, Close and Open again.
Next ==
    \/ Open
    \/ Close
    \/ Update(1)
    \/ UpdateBegin(1)
    \/ Put(1)
    \/ CallbackErr(1)
    \/ Commit(1)

Spec == Init /\ [][Next]_vars

\* One goroutine: Open and Updates that put one key each, over TreeKeys.
NextTree ==
    \/ Open
    \/ \E key \in TreeKeys : UpdatePut(key)

SpecTree == Init /\ [][NextTree]_vars

\* One goroutine whose Commit runs write by write, and a process that can
\* be killed at any point and started again.
NextCrash ==
    \/ Open
    \/ Close
    \/ Kill
    \/ Update(1)
    \/ UpdateBegin(1)
    \/ Put(1)
    \/ CallbackOk(1)
    \/ CommitWrite(1)
    \/ CommitSync(1)
    \/ CommitMeta(1)
    \/ CommitReturn(1)

SpecCrash == Init /\ [][NextCrash]_vars

\* One goroutine whose callbacks also put keys that were put before.
NextAgain ==
    \/ Open
    \/ Close
    \/ Update(1)
    \/ UpdateBegin(1)
    \/ Put(1)
    \/ PutAgain(1)
    \/ CallbackErr(1)
    \/ Commit(1)

SpecAgain == Init /\ [][NextAgain]_vars

\* One goroutine whose callbacks put values of different lengths.
NextSized ==
    \/ Open
    \/ Close
    \/ Update(1)
    \/ UpdateBegin(1)
    \/ PutSized(1)
    \/ CallbackErr(1)
    \/ Commit(1)

SpecSized == Init /\ [][NextSized]_vars

\* One goroutine that calls Update and View, with callbacks of View that
\* call Put.
NextView ==
    \/ Open
    \/ Close
    \/ Update(1)
    \/ UpdateBegin(1)
    \/ Put(1)
    \/ Commit(1)
    \/ View(1)
    \/ ViewBegin(1)
    \/ ViewPut(1)
    \/ ViewEnd(1)

SpecView == Init /\ [][NextView]_vars

\* The largest number of entries a leaf holds.
LeafCapacity ==
    (PageSize - NodeHeaderSize) \div (OffsetSize + KVHeaderSize + 1 + ValLen)

RECURSIVE Load(_, _)
Load(s, k) == IF k = 0 THEN s ELSE UpdateOnce(Load(s, k - 1), <<k>>)

\* An open database whose root leaf was filled by committed Updates.
Loaded == Load(Bootstrap(<<>>), LeafCapacity)

\* The keys put by the concurrent Updates: the next ones after the loaded.
ConcKeys == {<<k>> : k \in (LeafCapacity + 1)..(LeafCapacity + MaxConcKey)}

PutConc(p) == \E key \in ConcKeys : PutKey(p, key)

InitConc ==
    /\ \E s \in {Loaded} :
           /\ file = s.file
           /\ pager = s.pager
           /\ db = s.db
           /\ published = [root |-> s.db.Root, file |-> s.file]
    /\ tx = [p \in Procs |-> NoTx]
    /\ pc = [p \in Procs |-> "idle"]
    /\ lock = NoLock
    /\ committed = [k \in 1..LeafCapacity |-> ValueOf(<<k>>)]
    /\ staged = [p \in Procs |-> <<>>]
    /\ allOk = TRUE
    /\ snap = [p \in Procs |-> NoSnap]
    /\ torn = FALSE
    /\ reopened = FALSE
    /\ rolledBack = FALSE
    /\ ops = 0
    /\ issued = {}

\* The keys put on the database with the full root leaf by the Updates
\* that split the root leaf, a second leaf, and then the branch above them.
DeepKeys == {<<k>> : k \in (LeafCapacity + 1)..(LeafCapacity + 3)}

PutDeep(p) == \E key \in DeepKeys : PutKey(p, key)

\* One goroutine on the database with the full root leaf, whose Updates
\* put DeepKeys.
NextDeep ==
    \/ Update(1)
    \/ UpdateBegin(1)
    \/ PutDeep(1)
    \/ CallbackErr(1)
    \/ Commit(1)

SpecDeep == InitConc /\ [][NextDeep]_vars

\* The magic numbers of the files given to Open: DBMagic, its halves
\* swapped, its last bit off, and zero.
Magics == {DBMagic, <<DBMagicLo, DBMagicHi>>, <<DBMagicHi, DBMagicLo - 1>>, <<0, 0>>}

\* The file f with the magic field of its page 0 overwritten.
WithMagic(f, magic) ==
    With(PagerRead(f, MetaPageID).data, LAMBDA buf :
      PagerWriteFile(f, MetaPageID,
                     serialize(buf, [deserialize(buf) EXCEPT !.Magic = magic])))

\* A closed database file that GoKV wrote, with root 1 or after the split
\* of the root leaf, whose magic is any of Magics.
InitFiles ==
    /\ \E s \in {Loaded} :
         \E t \in {s, UpdateOnce(s, <<LeafCapacity + 1>>)} :
           \E magic \in Magics :
             /\ file = WithMagic(t.file, magic)
             /\ published = [root |-> t.db.Root, file |-> WithMagic(t.file, magic)]
             /\ committed = [k \in {k \in 1..(LeafCapacity + 1) :
                                       TxGet(<<>>, t.file, t.db.Root, <<k>>).err = Nil} |->
                                ValueOf(<<k>>)]
    /\ pager = NoPager
    /\ db = NoDB
    /\ tx = [p \in Procs |-> NoTx]
    /\ pc = [p \in Procs |-> "idle"]
    /\ lock = NoLock
    /\ staged = [p \in Procs |-> <<>>]
    /\ allOk = TRUE
    /\ snap = [p \in Procs |-> NoSnap]
    /\ torn = FALSE
    /\ reopened = FALSE
    /\ rolledBack = FALSE
    /\ ops = 0
    /\ issued = {}

\* Open on such a file, and one goroutine's Updates on the DB it returns.
NextFiles ==
    \/ Open
    \/ Close
    \/ Update(1)
    \/ UpdateBegin(1)
    \/ PutConc(1)
    \/ CallbackErr(1)
    \/ Commit(1)

SpecFiles == InitFiles /\ [][NextFiles]_vars

\* Put and Commit on a Tx that was not rolled back: after Rollback tx.db
\* is nil.
PutLive(p) == tx[p].active /\ \E key \in ConcKeys : PutKey(p, key)

CallbackOkLive(p) == tx[p].active /\ CallbackOk(p)

\* One goroutine on the database with the full root leaf, whose Updates
\* call Rollback, before the callback returns and after Commit returned.
NextRollback ==
    \/ Open
    \/ Close
    \/ Update(1)
    \/ UpdateBegin(1)
    \/ PutLive(1)
    \/ RollbackCall(1)
    \/ CallbackErr(1)
    \/ CallbackOkLive(1)
    \/ CommitWrite(1)
    \/ CommitSync(1)
    \/ CommitMeta(1)
    \/ CommitReturn(1)

SpecRollback == InitConc /\ [][NextRollback]_vars

\* One goroutine on the database with the full root leaf, with Commit taken
\* one write at a time and with writeMeta returning nil or an error.
NextOrder ==
    \/ Update(1)
    \/ UpdateBegin(1)
    \/ PutConc(1)
    \/ CallbackErr(1)
    \/ CallbackOk(1)
    \/ CommitWrite(1)
    \/ CommitSync(1)
    \/ CommitMetaWrite(1)
    \/ CommitMetaFail(1)
    \/ CommitRoot(1)
    \/ CommitFailed(1)
    \/ CommitReturn(1)

SpecOrder == InitConc /\ [][NextOrder]_vars

\* NumProcs goroutines calling Update and View on one open DB.
NextConc ==
    \E p \in Procs :
        \/ Update(p)
        \/ UpdateBegin(p)
        \/ PutConc(p)
        \/ CallbackErr(p)
        \/ CallbackOk(p)
        \/ CommitWrite(p)
        \/ CommitSync(p)
        \/ CommitMeta(p)
        \/ CommitReturn(p)
        \/ View(p)
        \/ ViewBegin(p)
        \/ ViewEnd(p)

SpecConc == InitConc /\ [][NextConc]_vars

\* Callbacks return, Commit runs on, a goroutine blocked in RLock is let in
\* when the lock is free of writers, and the mutex hands the writer lock to
\* every goroutine blocked in Lock in its turn.
Fairness ==
    \A p \in Procs :
        /\ WF_vars(CallbackErr(p) \/ CallbackOk(p))
        /\ WF_vars(CommitWrite(p) \/ CommitSync(p) \/ CommitMeta(p) \/ CommitReturn(p))
        /\ WF_vars(ViewBegin(p))
        /\ WF_vars(ViewEnd(p))
        /\ SF_vars(UpdateBegin(p))

\* The goroutines again, with callbacks that put at most the first of
\* ConcKeys, the key whose Put splits the root.
PutFirst(p) == PutKey(p, <<LeafCapacity + 1>>)

NextFair ==
    \E p \in Procs :
        \/ Update(p)
        \/ UpdateBegin(p)
        \/ PutFirst(p)
        \/ CallbackErr(p)
        \/ CallbackOk(p)
        \/ CommitWrite(p)
        \/ CommitSync(p)
        \/ CommitMeta(p)
        \/ CommitReturn(p)
        \/ View(p)
        \/ ViewBegin(p)
        \/ ViewEnd(p)

SpecConcFair == InitConc /\ [][NextFair]_vars /\ Fairness

\* ------------------------------------------------------- Node operations
\* One page taken through the operations of Node, starting from an empty
\* leaf or an empty branch.  file holds the node, and after a split its two
\* halves, of which the next operation takes one; pc[1] is the operation
\* that ran last, tx[1].err the error it returned and ops the number of
\* operations so far, at most MaxOps.
\* The keys put into the node: two one-byte keys, and after each a key it
\* is a prefix of.
NodeKeys == {<<1>>, <<1, 1>>, <<2>>, <<2, 0>>}

\* The lengths of the values put into a leaf.
NodeValLens == {0, ValLen}

\* The child page id put into a branch under key.
ChildOf(key) == key[1] + Len(key)

EmptyNode(nodeType) == PutU16([ZeroPage EXCEPT ![0] = nodeType], 1, 0)

InitNode ==
    /\ \E nodeType \in {NodeLeaf, NodeBranch} : file = <<EmptyNode(nodeType)>>
    /\ pager = NoPager
    /\ db = NoDB
    /\ tx = [p \in Procs |-> NoTx]
    /\ pc = [p \in Procs |-> "idle"]
    /\ lock = NoLock
    /\ committed = <<>>
    /\ staged = [p \in Procs |-> <<>>]
    /\ allOk = TRUE
    /\ published = NoSnap
    /\ snap = [p \in Procs |-> NoSnap]
    /\ torn = FALSE
    /\ reopened = FALSE
    /\ rolledBack = FALSE
    /\ ops = 0
    /\ issued = {}

\* n.insertLeafKeyValue(key, value) on the leaf file[i].
LeafInsertAt(i, key, len) ==
    /\ getType(file[i]) = NodeLeaf
    /\ \E r \in {insertLeafKeyValue(file[i], key, SizedValue(key, len))} :
           /\ file' = <<r.node>>
           /\ tx' = [tx EXCEPT ![1].err = r.err]
    /\ pc' = [pc EXCEPT ![1] = "insert"]
    /\ ops < MaxOps
    /\ ops' = ops + 1
    /\ UNCHANGED <<issued, pager, db, lock, committed, staged, allOk, published, snap, torn, reopened, rolledBack>>

LeafInsert ==
    \E i \in 1..Len(file), key \in NodeKeys, len \in NodeValLens : LeafInsertAt(i, key, len)

\* n.insertBranchKey(key, childPageID) on the branch file[i].
BranchInsertAt(i, key) ==
    /\ getType(file[i]) = NodeBranch
    /\ \E r \in {insertBranchKey(file[i], key, ChildOf(key))} :
           /\ file' = <<r.node>>
           /\ tx' = [tx EXCEPT ![1].err = r.err]
    /\ pc' = [pc EXCEPT ![1] = "insert"]
    /\ ops < MaxOps
    /\ ops' = ops + 1
    /\ UNCHANGED <<issued, pager, db, lock, committed, staged, allOk, published, snap, torn, reopened, rolledBack>>

BranchInsert == \E i \in 1..Len(file), key \in NodeKeys : BranchInsertAt(i, key)

\* n.compact(reserveNewEntry) on file[i].
CompactAt(i, reserveNewEntry) ==
    /\ file' = <<compact(file[i], reserveNewEntry).node>>
    /\ tx' = [tx EXCEPT ![1].err = Nil]
    /\ pc' = [pc EXCEPT ![1] = "compact"]
    /\ ops < MaxOps
    /\ ops' = ops + 1
    /\ UNCHANGED <<issued, pager, db, lock, committed, staged, allOk, published, snap, torn, reopened, rolledBack>>

Compact == \E i \in 1..Len(file), reserveNewEntry \in BOOLEAN : CompactAt(i, reserveNewEntry)

\* n.splitLeaf(newNode) or n.splitBranch(newNode) on the node file[i] that
\* holds a key, with a fresh newNode.
SplitAt(i) ==
    /\ getKeyCount(file[i]) >= 1
    /\ \E sp \in {IF getType(file[i]) = NodeLeaf
                  THEN splitLeaf(file[i], ZeroPage)
                  ELSE splitBranch(file[i], ZeroPage)} :
           file' = <<sp.node, sp.newNode>>
    /\ tx' = [tx EXCEPT ![1].err = Nil]
    /\ pc' = [pc EXCEPT ![1] = "split"]
    /\ ops < MaxOps
    /\ ops' = ops + 1
    /\ UNCHANGED <<issued, pager, db, lock, committed, staged, allOk, published, snap, torn, reopened, rolledBack>>

Split == \E i \in 1..Len(file) : SplitAt(i)

NextNode ==
    \/ LeafInsert
    \/ BranchInsert
    \/ Compact
    \/ Split

SpecNode == InitNode /\ [][NextNode]_vars

\* ------------------------------------------- Puts whose errors are ignored
\* The database s after committed Updates of one Put each, of the first n
\* keys of order.
RECURSIVE LoadOrder(_, _, _)
LoadOrder(s, order, n) ==
    IF n = 0 THEN s ELSE UpdateOnce(LoadOrder(s, order, n - 1), <<order[n]>>)

\* Keys put in an order that splits the root leaf and leaves room in both
\* leaves.
SkewOrder == <<2, 5, 6, 3>>

\* An open database after committed Updates that put SkewOrder.
InitSkew ==
    /\ \E s \in {LoadOrder(Bootstrap(<<>>), SkewOrder, Len(SkewOrder))} :
           /\ file = s.file
           /\ pager = s.pager
           /\ db = s.db
           /\ published = [root |-> s.db.Root, file |-> s.file]
    /\ tx = [p \in Procs |-> NoTx]
    /\ pc = [p \in Procs |-> "idle"]
    /\ lock = NoLock
    /\ committed = [k \in {SkewOrder[j] : j \in 1..Len(SkewOrder)} |-> ValueOf(<<k>>)]
    /\ staged = [p \in Procs |-> <<>>]
    /\ allOk = TRUE
    /\ snap = [p \in Procs |-> NoSnap]
    /\ torn = FALSE
    /\ reopened = FALSE
    /\ rolledBack = FALSE
    /\ ops = 0
    /\ issued = {}

PutTree(p) == \E key \in TreeKeys : PutKey(p, key)

\* One goroutine on that database: Updates whose callbacks put the keys
\* that are left and return nil, whatever Put returned, or an error.
NextSkew ==
    \/ Update(1)
    \/ UpdateBegin(1)
    \/ PutTree(1)
    \/ CallbackErr(1)
    \/ Commit(1)

SpecSkew == InitSkew /\ [][NextSkew]_vars

\* ------------------------------------------------------------ properties
\* A View's Get(key): a read-only transaction has no dirty nodes.
ViewGet(key) == TxGet(<<>>, file, db.Root, key)

\* The DB is open and no Update or View is running or waiting.
Quiet == db.open /\ \A p \in Procs : pc[p] = "idle"

\* What Get returned for every key in the state s = [root, file].
ViewOf(s) == Visible(s.file, s.root)

Found(v) == [err |-> Nil, val |-> v]

\* C1: after committed Updates whose Puts all returned nil, on distinct
\* keys in any order, a View's Get(k) returns the value put under k, for
\* every such k.
RoundTrip ==
    (Quiet /\ allOk) =>
        \A k \in DOMAIN committed : ViewGet(<<k>>) = Found(committed[k])

\* C2: inside a write transaction, after Put(k, v) returned nil, Get(k) of
\* the same transaction returns v, for every key the transaction staged.
ReadYourWrites ==
    \A p \in Procs :
        (pc[p] = "update" /\ allOk) =>
            \A k \in DOMAIN staged[p] :
                TxGet(tx[p].dirtyNodes, file, db.Root, <<k>>) = Found(staged[p][k])

\* C3: after a kill inside Commit, before the Commit published its state,
\* the reopened DB has the old root and Get returns, for every key, what
\* it returned before the transaction began.
CrashSafety ==
    (torn /\ db.open) =>
        /\ db.Root = published.root
        /\ Visible(file, db.Root) = ViewOf(published)

\* The tree under pageID in the file f is whole: every page lies inside the
\* file and is a leaf or a branch with at least one entry, whose slots
\* decode and whose children are whole.
RECURSIVE WellFormed(_, _, _)
WellFormed(f, pageID, fuel) ==
    LET r == PagerRead(f, pageID) IN
    /\ r.err = Nil
    /\ fuel > 0
    /\ getType(r.data) \in {NodeLeaf, NodeBranch}
    /\ Decodes(r.data)
    /\ getType(r.data) = NodeBranch =>
           /\ getKeyCount(r.data) >= 1
           /\ \A i \in 0..(getKeyCount(r.data) - 1) :
                  /\ Len(getLeafKeyValue(r.data, i).val) = 8
                  /\ WellFormed(f, getChild(r.data, i), fuel - 1)

\* The root recorded in the meta page of the file.
DiskRoot == deserialize(PagerRead(file, MetaPageID).data).Root

\* C4: whenever the process may be killed, the tree under the root that the
\* meta page on disk records is whole, so that no lookup after a reopen
\* meets a missing or malformed page.
NeverCorrupted ==
    Len(file) > 0 => WellFormed(file, DiskRoot, MaxDepth + 1)

\* C5: Commit writes no page id that was reachable from the committed root
\* when the transaction began.
CopyOnWrite ==
    \A p \in Procs :
        tx[p].written \cap Reachable(tx[p].before.file, tx[p].before.root, MaxDepth) = {}

Writing(p) == pc[p] \in {"update", "commit", "meta", "done"}

\* C8: at most one Update is inside its callback or its Commit, and no View
\* is inside its callback while an Update is.
MutualExclusion ==
    \A p, q \in Procs :
        (p # q /\ Writing(p)) => (~Writing(q) /\ pc[q] # "view")

\* An Update is inside its Commit while a View and, with a third goroutine,
\* another Update wait for the lock.
MutualExclusionWitness ==
    \E p, q \in Procs :
        /\ pc[p] = "commit" /\ tx[p].written # {}
        /\ pc[q] \in {"waitR", "waitW"}

KeyExists == <<"key already exists">>

\* C11: a Put under a key that holds a value, committed earlier or staged
\* earlier by the same transaction, fails with "key already exists", and
\* Get of the key returns the value it held.
NoUpsert ==
    [][\A p \in Procs : \A key \in Keys :
         PutAgainKey(p, key) =>
             /\ tx'[p].err = KeyExists
             /\ TxGet(tx'[p].dirtyNodes, file', db'.Root, key) = Found(Held(p)[key[1]])]_vars

\* The error wraps one of the "node is full" errors of the node.
FromNodeFull(err) == \E i \in 1..Len(err) : IsNodeFull(<<err[i]>>)

\* C12: no Put of an entry that fits a page with its slot returns an error
\* that comes from "node is full": the insert into the chosen half after a
\* split succeeds, and so do the two inserts into a new root.
NodeFullNeverEscapes ==
    \A p \in Procs : ~FromNodeFull(tx[p].err)

BranchKeyExists == "key already exists in branch"

\* C13: an Update that puts a key that is not in the tree does not fail
\* with "key already exists in branch": no promoted separator equals a key
\* of the parent branch.
FreshKeyNeverExists ==
    [][\A key \in TreeKeys :
         UpdatePut(key) =>
             \A e \in {UpdateOnce([file |-> file, pager |-> pager, db |-> db], key).err} :
                 \A i \in 1..Len(e) : e[i] # BranchKeyExists]_vars

KeyNotFound == [err |-> <<"key not found">>, val |-> Nil]

\* C14: Get of a key that no committed Update and no Put of the running
\* transaction inserted returns "key not found", in a View and inside an
\* Update, on the empty root leaf, on a single leaf and on a tree of
\* several levels: it returns no value, no read error and no panic.
GetAbsent ==
    \A key \in TreeKeys :
        /\ (Quiet /\ key[1] \notin DOMAIN committed) => ViewGet(key) = KeyNotFound
        /\ \A p \in Procs :
               (pc[p] = "update" /\ key[1] \notin DOMAIN Held(p)) =>
                   TxGet(tx[p].dirtyNodes, file, db.Root, key) = KeyNotFound

\* C15: Put on the read-only transaction of a View returns an error and
\* changes nothing: the View stages no dirty node and allocates no page,
\* and the pager's numPages and freePages change only under the writer
\* lock.
PutNeedsWritable ==
    [][(\A p \in Procs : \A key \in Keys :
           ViewPutKey(p, key) =>
               /\ tx'[p].err # Nil
               /\ tx'[p].dirtyNodes = tx[p].dirtyNodes
               /\ tx'[p].allocated = tx[p].allocated)
       /\ ((pager.open /\ pager'.open /\ pager' # pager) => lock.writer # 0)]_vars

\* C16: Rollback, called before or after a successful Commit, once or
\* again on the Tx it has rolled back, changes neither db.Root nor the meta
\* page nor any page of the file, and after Commit and Rollback Get returns
\* for every key what the Commit made durable.
RollbackNoOp ==
    [][\A p \in Procs :
         (pc[p] \in {"update", "done"} /\ ~tx'[p].active /\ pc'[p] = pc[p]) =>
             /\ file' = file
             /\ db' = db
             /\ pager' = pager
             /\ Rollback(tx'[p]) = tx'[p]
             /\ pc[p] = "done" =>
                    /\ Visible(file', db'.Root) = ViewOf(published)
                    /\ \A k \in DOMAIN committed' :
                           TxGet(<<>>, file', db'.Root, <<k>>) = Found(committed'[k])]_vars

\* Rollback was called after a Commit that wrote a new root.
RollbackNoOpWitness ==
    \E p \in Procs :
        /\ pc[p] = "done"
        /\ ~tx[p].active
        /\ db.Root # 1
        /\ tx[p].before.root # db.Root

\* C17: while the DB is open, a step that changes page 0 of the file is a
\* step of a Commit whose root changed, taken after every dirty page was
\* written to the file and Sync returned; and a step that changes db.Root
\* sets it to tx.root after the meta page holding tx.root was written.
OrderedCommit ==
    [][(db.open /\ db'.open) =>
          /\ PagerRead(file', MetaPageID).data # PagerRead(file, MetaPageID).data =>
                 \E p \in Procs :
                     /\ pc[p] = "meta"
                     /\ tx[p].root # db.Root
                     /\ tx[p].written = DOMAIN tx[p].dirtyNodes
                     /\ \A id \in DOMAIN tx[p].dirtyNodes :
                            PagerRead(file, id).data = tx[p].dirtyNodes[id]
          /\ db'.Root # db.Root =>
                 \E p \in Procs :
                     /\ pc[p] = "root"
                     /\ db'.Root = tx[p].root
                     /\ deserialize(PagerRead(file, MetaPageID).data).Root = tx[p].root]_vars

\* Commit wrote the meta page with a new root; db.Root is not set yet.
OrderedCommitWitness ==
    \E p \in Procs :
        /\ pc[p] = "root"
        /\ tx[p].root # db.Root
        /\ deserialize(PagerRead(file, MetaPageID).data).Root = tx[p].root

\* C18: Open on a file of size 0 returns a DB with Root 1; page 0 of the
\* file holds the magic 0xDEADBEEF in little-endian bytes, root 1 and free
\* list 0, page 1 is a leaf with no keys, the pager counts 2 pages, and
\* Get fails with "key not found" for every key.
OpenEmpty ==
    [][(Open /\ Len(file) = 0) =>
          /\ db'.open
          /\ db'.Root = 1
          /\ db'.Meta = [Magic |-> DBMagic, Root |-> 1, FreeList |-> 0]
          /\ Len(file') = 2
          /\ \E meta \in {PagerRead(file', MetaPageID).data} :
                 /\ <<meta[0], meta[1], meta[2], meta[3]>> = <<239, 190, 173, 222>>
                 /\ <<meta[4], meta[5], meta[6], meta[7]>> = <<1, 0, 0, 0>>
                 /\ <<meta[8], meta[9], meta[10], meta[11]>> = <<0, 0, 0, 0>>
          /\ \E root \in {PagerRead(file', 1).data} :
                 /\ getType(root) = NodeLeaf
                 /\ getKeyCount(root) = 0
          /\ pager'.open
          /\ pager'.numPages = 2
          /\ \A key \in TreeKeys : TxGet(<<>>, file', db'.Root, key) = KeyNotFound]_vars

\* The DB that Open made on an empty file, before any Update.
OpenEmptyWitness ==
    /\ db.open
    /\ db.Root = 1
    /\ Len(file) = 2
    /\ getKeyCount(PagerRead(file, 1).data) = 0
    /\ pager.numPages = 2
    /\ committed = <<>>
    /\ ~reopened

BadMagic == <<"invalid database file: magic mismatch">>

\* C19: Open on a file that holds pages and whose page 0 does not start
\* with the bytes of 0xDEADBEEF fails with the magic mismatch and returns
\* no DB; with these bytes it returns a DB whose Root is the root field of
\* page 0.
OpenChecksMagic ==
    [][(Open /\ Len(file) > 0) =>
          \E buf \in {PagerRead(file, MetaPageID).data} :
              IF <<buf[0], buf[1], buf[2], buf[3]>> # <<239, 190, 173, 222>>
              THEN /\ validate(deserialize(buf)) = BadMagic
                   /\ db' = NoDB
                   /\ file' = file
              ELSE /\ db'.open
                   /\ db'.Root = U32(buf, 4)
                   /\ db'.Meta = deserialize(buf)
                   /\ file' = file]_vars

\* Open has failed on a file whose magic is not DBMagic.
OpenChecksMagicWitness ==
    /\ pager.open
    /\ ~db.open
    /\ Len(file) > 0
    /\ deserialize(PagerRead(file, MetaPageID).data).Magic # DBMagic

NothingPublishedBeforeCommit ==
    [][/\ \A p \in Procs :
            (pc[p] = "update" /\ pc'[p] = "update") =>
                /\ file' = file
                /\ db' = db
                /\ file' = tx'[p].before.file
                /\ db'.Root = tx'[p].before.root
       /\ (db.open /\ db'.open /\ db'.Root # db.Root) =>
              \E p \in Procs :
                  /\ pc[p] = "update"
                  /\ pc'[p] = "idle"
                  /\ tx[p].writable
                  /\ db'.Root = tx[p].root]_vars

\* Puts have split a leaf, the branch above it and with it the root: the
\* transaction has a new root and is still in its callback.
NothingPublishedWitness ==
    \E p \in Procs :
        /\ pc[p] = "update"
        /\ tx[p].root # db.Root
        /\ db.Root # 1
        /\ Len(tx[p].allocated) >= 3
        /\ file = tx[p].before.file

\* C22: no transaction holds a dirty node or an allocated page under page
\* id 0, and while the DB is open page 0 of the file and db.Meta change
\* only in the step of a write transaction's Commit that follows its flush
\* and Sync, and only when tx.root differs from db.Root: a Put and a Commit
\* with an unchanged root leave both as they are.
MetaOnlyAtCommit ==
    [][/\ \A p \in Procs :
            /\ MetaPageID \notin DOMAIN tx'[p].dirtyNodes
            /\ \A i \in 1..Len(tx'[p].allocated) : tx'[p].allocated[i] # MetaPageID
       /\ (/\ db.open
           /\ db'.open
           /\ \/ PagerRead(file', MetaPageID).data # PagerRead(file, MetaPageID).data
              \/ db'.Meta # db.Meta) =>
              \E p \in Procs :
                  /\ tx[p].writable
                  /\ pc[p] \in {"update", "meta"}
                  /\ pc'[p] \in {"idle", "done"}
                  /\ tx[p].root # db.Root
                  /\ db'.Meta.Root = tx[p].root]_vars

\* A Commit whose root did not change has written its dirty pages and
\* returned, with page 0 as it was at Begin.
MetaOnlyAtCommitWitness ==
    \E p \in Procs :
        /\ pc[p] = "done"
        /\ tx[p].root = tx[p].before.root
        /\ tx[p].written # {}
        /\ PagerRead(file, MetaPageID).data = PagerRead(tx[p].before.file, MetaPageID).data

\* The keys stored in the leaves below pageID, read through the dirty
\* nodes of a transaction and the file.
RECURSIVE SubtreeKeys(_, _, _, _)
SubtreeKeys(dirtyNodes, f, pageID, fuel) ==
    With(getNode(dirtyNodes, f, pageID), LAMBDA g :
      IF g.err # Nil \/ fuel = 0 \/ ~Decodes(g.node) THEN {}
      ELSE IF getType(g.node) = NodeLeaf
      THEN {getLeafKeyValue(g.node, i).key : i \in 0..(getKeyCount(g.node) - 1)}
      ELSE UNION {SubtreeKeys(dirtyNodes, f, getChild(g.node, i), fuel - 1) :
                      i \in 0..(getKeyCount(g.node) - 1)})

\* In every branch node at or below pageID, the keys below child i are not
\* smaller than key i, for i >= 1, and are smaller than key i + 1.
RECURSIVE Separated(_, _, _, _)
Separated(dirtyNodes, f, pageID, fuel) ==
    With(getNode(dirtyNodes, f, pageID), LAMBDA g :
      IF g.err # Nil \/ fuel = 0 \/ ~Decodes(g.node) THEN FALSE
      ELSE IF getType(g.node) = NodeLeaf THEN TRUE
      ELSE \A i \in 0..(getKeyCount(g.node) - 1) :
             With(SubtreeKeys(dirtyNodes, f, getChild(g.node, i), fuel - 1), LAMBDA below :
               /\ i >= 1 =>
                      \A k \in below : Compare(k, getLeafKeyValue(g.node, i).key) >= 0
               /\ i + 1 < getKeyCount(g.node) =>
                      \A k \in below : Compare(k, getLeafKeyValue(g.node, i + 1).key) < 0
               /\ Separated(dirtyNodes, f, getChild(g.node, i), fuel - 1)))

\* C23: after Puts that all returned nil, every branch node reachable from
\* the root of the committed tree, and from the root of a transaction in
\* its callback, separates the keys of its children: below child i they
\* are >= key i for i >= 1 and < key i + 1.
BranchSeparator ==
    allOk =>
        /\ Quiet => Separated(<<>>, file, db.Root, MaxDepth)
        /\ \A p \in Procs :
               (pc[p] = "update" /\ tx[p].active) =>
                   Separated(tx[p].dirtyNodes, file, tx[p].root, MaxDepth)

\* In every branch node at or below pageID, key 0 is the smallest of the
\* keys below child 0.
RECURSIVE FirstKeySmallest(_, _, _, _)
FirstKeySmallest(dirtyNodes, f, pageID, fuel) ==
    With(getNode(dirtyNodes, f, pageID), LAMBDA g :
      IF g.err # Nil \/ fuel = 0 \/ ~Decodes(g.node) THEN FALSE
      ELSE IF getType(g.node) = NodeLeaf THEN TRUE
      ELSE /\ getKeyCount(g.node) > 0
           /\ With(SubtreeKeys(dirtyNodes, f, getChild(g.node, 0), fuel - 1), LAMBDA below :
                /\ getLeafKeyValue(g.node, 0).key \in below
                /\ \A k \in below : Compare(getLeafKeyValue(g.node, 0).key, k) <= 0)
           /\ \A i \in 0..(getKeyCount(g.node) - 1) :
                  FirstKeySmallest(dirtyNodes, f, getChild(g.node, i), fuel - 1))

\* C24: after Puts that all returned nil, in every branch node reachable
\* from the root of the committed tree the key of the first entry is the
\* smallest key stored below that entry's child.
FirstBranchKey ==
    (allOk /\ Quiet) => FirstKeySmallest(<<>>, file, db.Root, MaxDepth)

\* The keys of the node n in slot order.
KeysOf(n) == [i \in 1..getKeyCount(n) |-> getLeafKeyValue(n, i - 1).key]

\* C25: in every node made from an empty node by insertLeafKeyValue,
\* insertBranchKey, compact, splitLeaf and splitBranch, the keys read
\* through slots 0..count-1 are strictly ascending in byte order.
OrderingInvariant ==
    \A i \in 1..Len(file) :
        /\ Decodes(file[i])
        /\ \A a, b \in 1..getKeyCount(file[i]) :
               a < b => Compare(KeysOf(file[i])[a], KeysOf(file[i])[b]) < 0

\* A split has left two halves that both hold keys, of which one holds a
\* key that is a prefix of the next.
OrderingWitness ==
    /\ pc[1] = "split"
    /\ Len(file) = 2
    /\ getKeyCount(file[1]) >= 2
    /\ getKeyCount(file[2]) >= 2
    /\ KeysOf(file[1])[1] = <<1>>
    /\ KeysOf(file[1])[2] = <<1, 1>>

\* C26: in every node made by inserts, compact and splits, the record of
\* every slot ends inside the page and starts at or after the end of the
\* offset table, and the records of two slots do not overlap.
BoundsInvariant ==
    \A i \in 1..Len(file) :
        \A a \in 0..(getKeyCount(file[i]) - 1) :
            /\ getOffset(file[i], a) + KVHeaderSize <= PageSize
            /\ RecordEnd(file[i], a) <= PageSize
            /\ getOffset(file[i], a) >= NodeHeaderSize + OffsetSize * getKeyCount(file[i])
            /\ \A b \in 0..(getKeyCount(file[i]) - 1) :
                   a # b => \/ RecordEnd(file[i], a) <= getOffset(file[i], b)
                            \/ RecordEnd(file[i], b) <= getOffset(file[i], a)

\* An insert has put a third key in front of a key that was in the node:
\* the records are not in slot order.
BoundsWitness ==
    /\ pc[1] = "insert"
    /\ tx[1].err = Nil
    /\ getKeyCount(file[1]) >= 3
    /\ getOffset(file[1], 0) > getOffset(file[1], 1)

\* The keys findKeyInNode is asked for: the keys put into the nodes, and
\* keys below, between and above them.
ProbeKeys == NodeKeys \cup {<<>>, <<0>>, <<1, 0>>, <<1, 2>>, <<2, 0, 0>>, <<3>>}

\* C27: on every node made by the operations of Node, whose keys are
\* strictly ascending, findKeyInNode(key) returns the lowest index in
\* 0..count whose key is >= key, count when there is none, and found
\* exactly when that index is below count and its key is key.
FindLowest ==
    \A i \in 1..Len(file) : \A key \in ProbeKeys :
        \E r \in {findKeyInNode(file[i], key)} :
            /\ r.index \in 0..getKeyCount(file[i])
            /\ \A a \in 1..getKeyCount(file[i]) :
                   (Compare(KeysOf(file[i])[a], key) >= 0) <=> (a - 1 >= r.index)
            /\ r.found <=> (r.index < getKeyCount(file[i])
                            /\ KeysOf(file[i])[r.index + 1] = key)

\* A node with four keys, on which the binary search takes both turns.
FindLowestWitness ==
    /\ Len(file) = 1
    /\ getKeyCount(file[1]) = 4
    /\ findKeyInNode(file[1], <<1, 1>>) = [index |-> 1, found |-> TRUE]
    /\ findKeyInNode(file[1], <<2, 0, 0>>) = [index |-> 4, found |-> FALSE]
    /\ findKeyInNode(file[1], <<1, 2>>) = [index |-> 2, found |-> FALSE]

\* The (key, value) pairs of the node n in slot order.
PairsOf(n) == Pairs(n, 0, getKeyCount(n))

\* pairs with the element at position at (from 1) taken out.
Without(pairs, at) ==
    [j \in 1..(Len(pairs) - 1) |-> IF j < at THEN pairs[j] ELSE pairs[j + 1]]

\* The node after is the node before with (key, value) inserted: one more
\* slot, the pair at the index findKeyInNode returns as found, and the
\* pairs of before, values and order, around it.
Inserted(before, after, key, value) ==
    \E f \in {findKeyInNode(after, key)} :
        /\ getKeyCount(after) = getKeyCount(before) + 1
        /\ Decodes(after)
        /\ f.found
        /\ getLeafKeyValue(after, f.index).key = key
        /\ getLeafKeyValue(after, f.index).val = value
        /\ Without(PairsOf(after), f.index + 1) = PairsOf(before)
        /\ getType(after) = getType(before)

\* C28: an insertLeafKeyValue or insertBranchKey that returns nil raises
\* the count by one, leaves the pair at the slot findKeyInNode returns for
\* its key, and keeps the pairs the node held, values and order, whether
\* the insert compacted the node or not.
InsertKeeps ==
    [][(pc'[1] = "insert" /\ tx'[1].err = Nil) =>
          /\ \A i \in 1..Len(file), key \in NodeKeys, len \in NodeValLens :
               LeafInsertAt(i, key, len) =>
                   Inserted(file[i], file'[1], key, SizedValue(key, len))
          /\ \A i \in 1..Len(file), key \in NodeKeys :
               BranchInsertAt(i, key) =>
                   /\ Inserted(file[i], file'[1], key, PutUint64(ChildOf(key)))
                   /\ getChild(file'[1], findKeyInNode(file'[1], key).index) = ChildOf(key)]_vars

\* An insert that took the path through compact has put a third pair
\* between two pairs of a leaf.
InsertKeepsWitness ==
    /\ pc[1] = "insert"
    /\ tx[1].err = Nil
    /\ getType(file[1]) = NodeLeaf
    /\ getKeyCount(file[1]) = 3
    /\ KeysOf(file[1]) = <<<<1>>, <<1, 1>>, <<2>>>>
    /\ getOffset(file[1], 1) > getOffset(file[1], 2)
    /\ getOffset(file[1], 0) = NodeHeaderSize + 3 * OffsetSize

NodeFull == <<"node is full">>

\* The lengths of the values the inserts of C29 are tried with: the
\* lengths put into the nodes and the longest that fits an empty page.
FullValLens == NodeValLens \cup {BigLen, BigLen + 1}

\* The bytes the node n needs to hold its pairs and one more entry of the
\* given size when packed: header, count + 1 slots, and the records.
PackedSize(n, entrySize) ==
    NodeHeaderSize + OffsetSize * (getKeyCount(n) + 1)
        + SumSizes(PairsOf(n), 1) + entrySize

\* C29: insertLeafKeyValue and insertBranchKey of a key that is not in the
\* node return "node is full" exactly when header, count + 1 slots, the
\* records of the node and the new entry exceed the page, and nil
\* otherwise, on every node the operations of Node make.
FullIffNoRoom ==
    \A i \in 1..Len(file) : \A key \in NodeKeys :
        ~findKeyInNode(file[i], key).found =>
            /\ \A len \in FullValLens :
                   insertLeafKeyValue(file[i], key, SizedValue(key, len)).err =
                       IF PackedSize(file[i], KVHeaderSize + Len(key) + len) > PageSize
                       THEN NodeFull ELSE Nil
            /\ insertBranchKey(file[i], key, ChildOf(key)).err =
                   IF PackedSize(file[i], KVHeaderSize + Len(key)
                                              + Len(PutUint64(ChildOf(key)))) > PageSize
                   THEN NodeFull ELSE Nil

\* An insert has returned "node is full" on a leaf that holds two pairs or
\* more.
FullIffNoRoomWitness ==
    /\ pc[1] = "insert"
    /\ tx[1].err = NodeFull
    /\ getType(file[1]) = NodeLeaf
    /\ getKeyCount(file[1]) >= 2
    /\ ops >= 3

\* The node after is the node before packed: the same count and pairs,
\* slot j at startPos plus the sizes of the records of the slots before
\* it, and pos the end of the last record.
Packed(before, after, startPos, pos) ==
    \E pairs \in {PairsOf(before)} :
        /\ getKeyCount(after) = getKeyCount(before)
        /\ PairsOf(after) = pairs
        /\ \A j \in 0..(Len(pairs) - 1) :
               getOffset(after, j) =
                   startPos + SumSizes(pairs, 1) - SumSizes(pairs, j + 1)
        /\ pos = startPos + SumSizes(pairs, 1)
        /\ Len(pairs) > 0 => pos = RecordEnd(after, Len(pairs) - 1)

\* C30: on every node the operations of Node make, compact that returns
\* ok leaves the count and the sequence of (key, value) pairs as they
\* were, the records one after another from NodeHeaderSize + OffsetSize *
\* (count, plus one with reserveNewEntry), and returns the end of the
\* last record; compact that returns not ok leaves the page as it was.
CompactKeeps ==
    \A i \in 1..Len(file) : \A reserveNewEntry \in BOOLEAN :
        \E c \in {compact(file[i], reserveNewEntry)} :
            IF c.ok
            THEN Packed(file[i], c.node,
                        NodeHeaderSize + OffsetSize *
                            (getKeyCount(file[i])
                                 + (IF reserveNewEntry THEN 1 ELSE 0)),
                        c.pos)
            ELSE c.node = file[i]

\* compact has packed a node of three pairs behind a free slot: a second
\* compact without the free slot moves the records, and an insert of a
\* value of ValLen bytes finds no room.
CompactKeepsWitness ==
    /\ pc[1] = "compact"
    /\ Len(file) = 1
    /\ getKeyCount(file[1]) = 3
    /\ getOffset(file[1], 0) = NodeHeaderSize + 4 * OffsetSize
    /\ compact(file[1], FALSE).ok
    /\ compact(file[1], FALSE).node # file[1]
    /\ \E key \in NodeKeys :
           insertLeafKeyValue(file[1], key, SizedValue(key, ValLen)).err = NodeFull

\* splitLeaf or splitBranch of the node n, by its type, into a zero page.
SplitOf(n) ==
    IF getType(n) = NodeLeaf THEN splitLeaf(n, ZeroPage) ELSE splitBranch(n, ZeroPage)

\* C31: splitLeaf and splitBranch of a node of count >= 1 leave in the
\* node the pairs of slots [0, count/2) and in the new node the pairs of
\* slots [count/2, count), in order and with their values; promoteKey is
\* the first key of the new node and every key left in the node is
\* smaller; both halves have the type of the node.
SplitPartitions ==
    \A i \in 1..Len(file) :
        getKeyCount(file[i]) >= 1 =>
            \E sp \in {SplitOf(file[i])} : \E pairs \in {PairsOf(file[i])} :
            \E mid \in {Len(pairs) \div 2} :
                /\ PairsOf(sp.node) = SubSeq(pairs, 1, mid)
                /\ PairsOf(sp.newNode) = SubSeq(pairs, mid + 1, Len(pairs))
                /\ PairsOf(sp.node) \o PairsOf(sp.newNode) = pairs
                /\ sp.promoteKey = getLeafKeyValue(sp.newNode, 0).key
                /\ \A j \in 1..mid : Compare(pairs[j].key, sp.promoteKey) < 0
                /\ getType(sp.node) = getType(file[i])
                /\ getType(sp.newNode) = getType(file[i])

\* A split of a node of three pairs has left one pair in the node and two
\* in the new node.
SplitPartitionsWitness ==
    /\ pc[1] = "split"
    /\ Len(file) = 2
    /\ getKeyCount(file[1]) = 1
    /\ getKeyCount(file[2]) = 2
    /\ Compare(getLeafKeyValue(file[1], 0).key, getLeafKeyValue(file[2], 0).key) < 0

\* The number of nodes on the descent from page pageID to a leaf through
\* the first child of every branch, as the transaction sees the pages.
RECURSIVE Height(_, _, _, _)
Height(dirtyNodes, f, pageID, fuel) ==
    With(getNode(dirtyNodes, f, pageID), LAMBDA g :
      IF g.err # Nil \/ fuel = 0 THEN 0
      ELSE IF getType(g.node) = NodeLeaf THEN 1
      ELSE 1 + Height(dirtyNodes, f, getChild(g.node, 0), fuel - 1))

\* What insertRecursive returns for the Put of key by goroutine p.
Descent(p, key) ==
    insertRecursive([dirtyNodes |-> tx[p].dirtyNodes, allocated |-> tx[p].allocated,
                     numPages |-> pager.numPages, freePages |-> pager.freePages],
                    file, tx[p].root, key, ValueOf(key))

\* C32: a Put whose insertRecursive on tx.root returns a promotion stages
\* under a page id not used before a branch of the two entries (first key
\* of the old root, old root id) and (promoteKey, newChildId), the first
\* key smaller than promoteKey, and makes that page tx.root; the height of
\* the tree grows by one. Every other Put leaves tx.root and the height as
\* they were.
RootSplit ==
    [][\A key \in DeepKeys :
         PutKey(1, key) =>
           \E r \in {Descent(1, key)} :
             IF r.err = Nil /\ r.promoted
             THEN /\ tx'[1].err = Nil
                  /\ tx'[1].root # tx[1].root
                  /\ tx'[1].root >= pager.numPages
                  /\ tx'[1].root \notin DOMAIN r.st.dirtyNodes
                  /\ tx'[1].root \in DOMAIN tx'[1].dirtyNodes
                  /\ \E root \in {tx'[1].dirtyNodes[tx'[1].root]} :
                     \E first \in {getLeafKeyValue(
                                      getNode(tx'[1].dirtyNodes, file, tx[1].root).node,
                                      0).key} :
                         /\ getType(root) = NodeBranch
                         /\ getKeyCount(root) = 2
                         /\ getLeafKeyValue(root, 0).key = first
                         /\ getChild(root, 0) = tx[1].root
                         /\ getLeafKeyValue(root, 1).key = r.newKey
                         /\ getChild(root, 1) = r.newPageID
                         /\ Compare(first, r.newKey) < 0
                  /\ Height(tx'[1].dirtyNodes, file', tx'[1].root, MaxDepth)
                       = Height(tx[1].dirtyNodes, file, tx[1].root, MaxDepth) + 1
             ELSE /\ tx'[1].root = tx[1].root
                  /\ Height(tx'[1].dirtyNodes, file', tx'[1].root, MaxDepth)
                       = Height(tx[1].dirtyNodes, file, tx[1].root, MaxDepth)]_vars

\* A transaction has split the root twice: the root leaf, and then the
\* root branch above the leaves.
RootSplitWitness ==
    /\ pc[1] = "update"
    /\ tx[1].err = Nil
    /\ tx[1].root # db.Root
    /\ Height(tx[1].dirtyNodes, file, tx[1].root, MaxDepth) = 3
    /\ Height(<<>>, file, db.Root, MaxDepth) = 1

\* The slot of the greatest key of the node that is <= key, and slot 0
\* when every key of the node is greater.
Predecessor(node, key) ==
    With({j \in 0..(getKeyCount(node) - 1) :
              Compare(getLeafKeyValue(node, j).key, key) <= 0}, LAMBDA below :
      IF below = {} THEN 0 ELSE SetMax(below))

\* C33: on every branch of count >= 1 made by the operations of Node and
\* for every search key, findLeaf and insertRecursive select the same
\* child: that of the greatest key <= the search key, and child 0 when the
\* search key is smaller than every key of the branch.
ChildSelection ==
    \A i \in 1..Len(file) :
        (getType(file[i]) = NodeBranch /\ getKeyCount(file[i]) >= 1) =>
            \A key \in ProbeKeys :
                /\ findLeafChildIndex(file[i], key) = Predecessor(file[i], key)
                /\ insertChildIndex(file[i], key) = Predecessor(file[i], key)
                /\ getKeyCount(file[i]) = 1 => findLeafChildIndex(file[i], key) = 0

\* A branch of three keys, on which the selection steps back from a
\* greater key, stays on an equal key, stays at slot 0 below every key
\* and comes back from past the last slot.
ChildSelectionWitness ==
    /\ Len(file) = 1
    /\ getType(file[1]) = NodeBranch
    /\ KeysOf(file[1]) = <<<<1>>, <<1, 1>>, <<2>>>>
    /\ findKeyInNode(file[1], <<1, 2>>).index = 2
    /\ insertChildIndex(file[1], <<1, 2>>) = 1
    /\ insertChildIndex(file[1], <<1, 1>>) = 1
    /\ insertChildIndex(file[1], <<0>>) = 0
    /\ findKeyInNode(file[1], <<3>>).index = 3
    /\ findLeafChildIndex(file[1], <<3>>) = 2

\* The depths (the root at 1) of the leaves a descent from page pageID can
\* end in, as a transaction with these dirty nodes sees the pages; 0 for a
\* page that cannot be read or a descent that does not end.
RECURSIVE LeafDepths(_, _, _, _)
LeafDepths(dirtyNodes, f, pageID, fuel) ==
    With(getNode(dirtyNodes, f, pageID), LAMBDA g :
      IF g.err # Nil \/ fuel = 0 THEN {0}
      ELSE IF getType(g.node) = NodeLeaf THEN {1}
      ELSE IF ~Decodes(g.node) \/ getKeyCount(g.node) = 0 THEN {0}
      ELSE With(UNION {LeafDepths(dirtyNodes, f, getChild(g.node, j), fuel - 1) :
                           j \in 0..(getKeyCount(g.node) - 1)}, LAMBDA below :
             IF 0 \in below THEN {0} ELSE {d + 1 : d \in below}))

\* C34: after any sequence of Puts, committed or staged in a transaction,
\* every leaf that can be reached from the root is at the same depth, in
\* the tree of db.Root in the file and in the tree of tx.root as the
\* transaction sees it.
Balanced ==
    /\ db.open =>
           \E d \in 1..MaxDepth : LeafDepths(<<>>, file, db.Root, MaxDepth) = {d}
    /\ \A p \in Procs :
           pc[p] = "update" =>
               \E d \in 1..MaxDepth :
                   LeafDepths(tx[p].dirtyNodes, file, tx[p].root, MaxDepth) = {d}

\* A committed tree of two levels under a transaction whose Puts have
\* split a leaf, the root branch and the root: its leaves are at depth 3.
BalancedWitness ==
    /\ db.open
    /\ LeafDepths(<<>>, file, db.Root, MaxDepth) = {2}
    /\ pc[1] = "update"
    /\ Len(tx[1].allocated) >= 3
    /\ LeafDepths(tx[1].dirtyNodes, file, tx[1].root, MaxDepth) = {3}

\* Free lists as calls of ReleasePage would leave them.
FreeLists == {<<MaxPages + 1>>, <<MaxPages + 1, MaxPages + 3>>, <<MaxPages + 3, 1, MaxPages + 2>>}

\* GetFreePage on a pager with the free list freePages: the id released
\* last is returned and taken off the list, and numPages stays.
PopsLastReleased(freePages) ==
    \E st \in {[dirtyNodes |-> <<>>, allocated |-> <<>>,
                numPages |-> pager.numPages, freePages |-> freePages]} :
        GetFreePage(st) = [pageID |-> freePages[Len(freePages)],
                           st     |-> [st EXCEPT !.freePages =
                                          SubSeq(freePages, 1, Len(freePages) - 1)]]

\* C35: while a Pager is open its free list stays empty and numPages
\* never decreases; a step in which GetFreePage is called returns as many
\* ids not returned before by this Pager, by transactions that were
\* rolled back included, as numPages grows by, each of them >= 1, from
\* the former numPages on, and none of them a page reachable from db.Root
\* in the file; the ids a transaction appends to its allocated list are
\* these. On a free list that is not empty GetFreePage returns the id
\* released last.
FreshPages ==
    [][(pager.open /\ pager'.open) =>
          /\ pager.freePages = <<>> /\ pager'.freePages = <<>>
          /\ pager'.numPages >= pager.numPages
          /\ issued \subseteq issued'
          /\ Cardinality(issued' \ issued) = pager'.numPages - pager.numPages
          /\ \A id \in issued' \ issued :
                 /\ id >= 1
                 /\ id >= pager.numPages
                 /\ id < pager'.numPages
                 /\ db.open => id \notin Reachable(file, db.Root, MaxDepth)
          /\ \A p \in Procs :
                 (tx[p].active /\ tx'[p].active) =>
                     /\ SubSeq(tx'[p].allocated, 1, Len(tx[p].allocated)) = tx[p].allocated
                     /\ \A j \in (Len(tx[p].allocated) + 1)..Len(tx'[p].allocated) :
                            /\ tx'[p].allocated[j] \notin issued
                            /\ \A i \in 1..(j - 1) :
                                   tx'[p].allocated[i] # tx'[p].allocated[j]
          /\ \A freePages \in FreeLists : PopsLastReleased(freePages)]_vars

\* A transaction has split a leaf after an earlier transaction, which
\* had split the root, was rolled back: ids of pages that were never
\* written have been returned, and the transaction has another.
FreshPagesWitness ==
    /\ pc[1] = "update"
    /\ tx[1].allocated # <<>>
    /\ \E id \in issued :
           /\ id >= Len(file)
           /\ \A j \in 1..Len(tx[1].allocated) : tx[1].allocated[j] > id
    /\ Cardinality(issued) >= 3

\* C36: after an Open that returned an error, and so no DB, the file
\* handle that NewPager opened is closed.
OpenReleasesFile ==
    [][(Open /\ ~db'.open) => ~pager'.open]_vars

\* C37: when Commit has returned an error, db.Root and db.Meta.Root are
\* the root the transaction began with, and whenever no Commit is running
\* db.Meta.Root is db.Root.
FailedCommitPublishesNothing ==
    /\ \A p \in Procs :
           pc[p] = "failed" =>
               /\ db.Root = tx[p].before.root
               /\ db.Meta.Root = tx[p].before.root
    /\ (db.open /\ \A p \in Procs : pc[p] \in {"idle", "update"}) =>
           db.Meta.Root = db.Root

\* C38: a Put that returns an error leaves tx.dirtyNodes and tx.root as
\* they were before the call, and with them what Get returns in the
\* transaction for every key put before.
FailedPutChangesNothing ==
    [][\A p \in Procs :
         (pc[p] = "update" /\ pc'[p] = "update" /\ tx'[p].err # Nil) =>
             /\ tx'[p].dirtyNodes = tx[p].dirtyNodes
             /\ tx'[p].root = tx[p].root
             /\ \A k \in DOMAIN Held(p) :
                    TxGet(tx'[p].dirtyNodes, file', tx'[p].root, <<k>>)
                        = TxGet(tx[p].dirtyNodes, file, tx[p].root, <<k>>)]_vars

\* C39: after a kill inside the Commit of a later Update and a reopen,
\* Get returns its committed value for every key that a Commit that ended
\* had put and that Get returned when that Commit ended.
NoCommittedKeyLost ==
    (torn /\ db.open) =>
        \A k \in DOMAIN committed :
            ViewOf(published)[<<k>>] = Found(committed[k]) =>
                TxGet(<<>>, file, db.Root, <<k>>) = Found(committed[k])

\* The node after has the count and the (key, value) pairs of the node
\* before, in the same order.
SameContent(before, after) ==
    /\ getKeyCount(after) = getKeyCount(before)
    /\ PairsOf(after) = PairsOf(before)

\* C40: on every node the operations of Node make, insertLeafKeyValue and
\* insertBranchKey that return "key already exists", "key already exists
\* in branch" or "node is full" return the node with the count and the
\* sequence of (key, value) pairs it had before the call.
FailedInsertKeeps ==
    \A i \in 1..Len(file) : \A key \in NodeKeys :
        /\ \A len \in FullValLens :
               \E r \in {insertLeafKeyValue(file[i], key, SizedValue(key, len))} :
                   /\ r.err \in {Nil, KeyExists, NodeFull}
                   /\ r.err # Nil => SameContent(file[i], r.node)
        /\ \E r \in {insertBranchKey(file[i], key, ChildOf(key))} :
               /\ r.err \in {Nil, <<BranchKeyExists>>, NodeFull}
               /\ r.err # Nil => SameContent(file[i], r.node)

\* An insert has returned "node is full" on a node of two pairs or more
\* and has left the records packed behind the slots of the pairs and one
\* slot more: the failed insert compacted the node.
FailedInsertKeepsWitness ==
    /\ pc[1] = "insert"
    /\ tx[1].err = NodeFull
    /\ getKeyCount(file[1]) >= 2
    /\ getOffset(file[1], 0) =
           NodeHeaderSize + OffsetSize * (getKeyCount(file[1]) + 1)
    /\ \E k \in NodeKeys : insertLeafKeyValue(file[1], k, <<>>).err = KeyExists

====
